---- MODULE Spec2Model ----
(***************************************************************************)
(* Occupancy networks of 3D_baggage_segmentation: construction of the      *)
(* three OccupancyNetwork variants (Models.py) and of Res_Auto_3d_Model_   *)
(* Occu (networks.py), their forward passes and the inference threshold.   *)
(*                                                                         *)
(* A tensor is a record [err, rows, chan, spatial]:                        *)
(*   rows    one entry per index of dim 0, naming what the row's values    *)
(*           were computed from: vol (the content of the volume whose      *)
(*           encoding sits in the row, 0 if none), coord (the coordinate   *)
(*           triple in the row, 0 if none), conds (the conditioning        *)
(*           inputs of the decoder blocks applied to it, in order, each    *)
(*           the latent code the block was handed, row by row) and         *)
(*           score (the occupancy score in hundredths, 0 before the head)  *)
(*   chan    the layout of dim 1, a sequence of segments [tag, w]          *)
(*   spatial the remaining dims, <<>> for a rank-2 tensor                  *)
(*   err     "none", or the failure raised while computing it              *)
(***************************************************************************)
EXTENDS Integers, Sequences, FiniteSets, TLC

\* ------------------------------------------------------------------ bounds
MaxBatch == 2
MaxRows == 4
\* how far from the block count the length of a list argument may be
MaxLengthError == 1
VolumeValues == {1, 2}
CoordinateValues == {1, 2}
VolumeShapes == {<<80, 48, 64>>, <<40, 24, 32>>, <<8, 8, 8>>}
WeightValues == {0, 1}
\* scores in hundredths: 0.05, 0.10, 0.15, 0.50
ScoreValues == <<5, 10, 15, 50>>
\* size_iter, size_print_every and the batches of the datasets of a generator
MaxIter == 2
MaxPrintEvery == 2
MaxTrainBatches == 2
MaxValBatches == 1
\* the constructions and calls of a session
MaxCalls == 3
\* the values the parameters of the generator's network take
NumWeights == 2
\* the states of the optimizer
NumOptimizerStates == 2
\* what the random number generator may give the dropout layers of a call
DropoutDraws == {1, 2}
\* the mark a dropout layer leaves on a row is DropMark + the draw
DropMark == 100
\* conditioning widths a decoder block may have been built with
LatentDims == {480, 8}

\* --------------------------------------------------------- program constants
\* width of a coordinate row
CoordWidth == 3
\* inference threshold 0.1 and the scale of the fixed-point scores
Threshold == 10
Scale == 100

\* ------------------------------------------------------- state of the layers
VARIABLES
    training,                 \* nn.Module.training of the network: TRUE after construction
    dropout                   \* the random draw of the dropout layers in the current call

\* ------------------------------------------------------------------ helpers
Max(a, b) == IF a >= b THEN a ELSE b

RECURSIVE Prod(_)
Prod(s) == IF s = <<>> THEN 1 ELSE Head(s) * Prod(Tail(s))

RECURSIVE SumW(_)
SumW(chan) == IF chan = <<>> THEN 0 ELSE Head(chan).w + SumW(Tail(chan))

Last(s) == s[Len(s)]

Row(v, c) == [vol |-> v, coord |-> c, conds |-> <<>>, score |-> 0]
Seg(t, n) == [tag |-> t, w |-> n]
Tensor(r, c, s) == [err |-> "none", rows |-> r, chan |-> c, spatial |-> s]
Failed(kind) == [err |-> kind, rows |-> <<>>, chan |-> <<>>, spatial |-> <<>>]
NoTensor == Failed("unset")

\* tensor.shape[0] and tensor.shape[1]
Shape0(t) == Len(t.rows)
Shape1(t) == SumW(t.chan)

\* --------------------------------------------------------- torch primitives
\* [x] * k
RECURSIVE Copies(_, _)
Copies(x, k) == IF k <= 0 THEN <<>> ELSE <<x>> \o Copies(x, k - 1)

\* torch.Tensor.repeat(k, 1), the tiling repeat: the whole batch k times
RECURSIVE TileRows(_, _)
TileRows(rows, k) == IF k <= 0 THEN <<>> ELSE rows \o TileRows(rows, k - 1)

\* torch.repeat_interleave(t, k, dim=0): every row in turn, k times each
RECURSIVE RepeatRows(_, _)
RepeatRows(rows, k) ==
    IF rows = <<>> THEN <<>>
    ELSE Copies(Head(rows), k) \o RepeatRows(Tail(rows), k)

\* t.repeat(k, 1, ...)
repeat_tile(t, k) == [t EXCEPT !.rows = TileRows(t.rows, k)]

repeat_interleave(t, k) == [t EXCEPT !.rows = RepeatRows(t.rows, k)]

\* int(coordinates.shape[0] / volume.shape[0]) for non-negative sizes
Repeats(n, b) == n \div b

MergeRow(a, b) ==
    [vol |-> Max(a.vol, b.vol), coord |-> Max(a.coord, b.coord),
     conds |-> a.conds \o b.conds, score |-> Max(a.score, b.score)]

\* torch.cat((a, b), dim=1) without the check of the other dims
cat_unchecked(a, b) ==
    IF a.err # "none" THEN a
    ELSE IF b.err # "none" THEN b
    ELSE LET n == IF Shape0(a) <= Shape0(b) THEN Shape0(a) ELSE Shape0(b)
         IN  Tensor([i \in 1..Shape0(b) |->
                        IF i <= Shape0(a) THEN MergeRow(a.rows[i], b.rows[i])
                        ELSE b.rows[i]],
                    a.chan \o b.chan, b.spatial)

\* torch.cat((a, b), dim=1): all dims but dim 1 must agree
cat(a, b) ==
    IF a.err # "none" THEN a
    ELSE IF b.err # "none" THEN b
    ELSE IF Shape0(a) # Shape0(b) THEN Failed("rows")
    ELSE IF a.spatial # b.spatial THEN Failed("spatial")
    ELSE Tensor([i \in 1..Shape0(a) |-> MergeRow(a.rows[i], b.rows[i])],
                a.chan \o b.chan, a.spatial)

\* t.view(t.shape[0], t.shape[1]): the channels alone
flatten_channels(t) ==
    IF t.err # "none" THEN t
    ELSE Tensor(t.rows, <<Seg("lat", Shape1(t))>>, <<>>)

\* t.view(t.shape[0], -1)
flatten(t) ==
    IF t.err # "none" THEN t
    ELSE Tensor(t.rows, <<Seg("lat", Shape1(t) * Prod(t.spatial))>>, <<>>)

\* ------------------------------------------------- parameter broadcaster
\* a configuration value: a scalar, a tuple used as one unit, or a list
S(x) == [kind |-> "scalar", v |-> x]
U(x) == [kind |-> "tuple", v |-> x]
L(x) == [kind |-> "list", v |-> x]

\* Misc.parse_to_list(value, count, name)
parse_to_list(value, count, name) ==
    IF value.kind = "list"
    THEN IF Len(value.v) = count
         THEN [ok |-> TRUE, list |-> value.v, name |-> <<>>]
         ELSE [ok |-> FALSE, list |-> <<>>, name |-> name]
    ELSE [ok |-> TRUE, list |-> Copies(value.v, count), name |-> <<>>]

\* ---------------------------------------------------- constructor arguments
\* an argument is named by the words of its Python identifier
channels_in_encoding_blocks == <<"channels", "in", "encoding", "blocks">>
kernel_size_encoding == <<"kernel", "size", "encoding">>
stride_encoding == <<"stride", "encoding">>
padding_encoding == <<"padding", "encoding">>
activation_encoding == <<"activation", "encoding">>
downsampling_encoding == <<"downsampling", "encoding">>
downsampling_factor_encoding == <<"downsampling", "factor", "encoding">>
normalization_encoding == <<"normalization", "encoding">>
dropout_rate_encoding == <<"dropout", "rate", "encoding">>
bias_encoding == <<"bias", "encoding">>
channels_in_decoding_blocks == <<"channels", "in", "decoding", "blocks">>
kernel_size_decoding == <<"kernel", "size", "decoding">>
stride_decoding == <<"stride", "decoding">>
padding_decoding == <<"padding", "decoding">>
activation_decoding == <<"activation", "decoding">>
downsampling_decoding == <<"downsampling", "decoding">>
downsampling_factor_decoding == <<"downsampling", "factor", "decoding">>
normalization_decoding == <<"normalization", "decoding">>
dropout_rate_decoding == <<"dropout", "rate", "decoding">>
bias_decoding == <<"bias", "decoding">>

Classes == {"OccupancyNetwork", "OccupancyNetworkNoCat", "OccupancyNetworkNoCatCNN"}

\* one Misc.parse_to_list call: the argument, which block count, the name passed
Call(a, c, n) == [arg |-> a, count |-> c, name |-> n]

\* "Convert encoding parameters to lists", the same ten calls in every class
EncodingCalls ==
    << Call(channels_in_encoding_blocks, "encoding", <<"channels", "in", "encoding", "blocks">>),
       Call(kernel_size_encoding, "encoding", <<"kernel", "size", "encoding">>),
       Call(stride_encoding, "encoding", <<"stride", "encoding">>),
       Call(padding_encoding, "encoding", <<"padding", "encoding">>),
       Call(activation_encoding, "encoding", <<"activation", "encoding">>),
       Call(downsampling_encoding, "encoding", <<"downsampling", "encoding">>),
       Call(downsampling_factor_encoding, "encoding", <<"downsampling", "factor", "encoding">>),
       Call(normalization_encoding, "encoding", <<"normalization", "encoding">>),
       Call(dropout_rate_encoding, "encoding", <<"dropout", "rate", "encoding">>),
       Call(bias_encoding, "encoding", <<"bias", "encoding">>) >>

\* the calls with the last conversion, of bias_decoding, given the encoding block count
WrongCount(calls) == [calls EXCEPT ![Len(calls)].count = "encoding"]

\* "Convert decoding parameters to lists" of OccupancyNetwork / OccupancyNetworkNoCat
DecodingCalls ==
    << Call(channels_in_decoding_blocks, "decoding", <<"channels", "in", "decoding", "blocks">>),
       Call(activation_decoding, "decoding", <<"activation", "decoding">>),
       Call(normalization_decoding, "decoding", <<"normalization", "decoding">>),
       Call(dropout_rate_decoding, "decoding", <<"dropout", "rate", "decoding">>),
       Call(bias_decoding, "decoding", <<"bias", "decoding">>) >>

\* "Convert decoding parameters to lists" of OccupancyNetworkNoCatCNN
DecodingCallsCNN ==
    << Call(channels_in_decoding_blocks, "decoding", <<"channels", "in", "encoding", "blocks">>),
       Call(kernel_size_decoding, "decoding", <<"kernel", "size", "encoding">>),
       Call(stride_decoding, "decoding", <<"stride", "encoding">>),
       Call(padding_decoding, "decoding", <<"padding", "encoding">>),
       Call(activation_decoding, "decoding", <<"activation", "encoding">>),
       Call(downsampling_decoding, "decoding", <<"downsampling", "encoding">>),
       Call(downsampling_factor_decoding, "decoding", <<"downsampling", "factor", "encoding">>),
       Call(normalization_decoding, "decoding", <<"normalization", "encoding">>),
       Call(dropout_rate_decoding, "decoding", <<"dropout", "rate", "encoding">>),
       Call(bias_decoding, "decoding", <<"bias", "encoding">>) >>

\* the parse_to_list calls, the last one with the other path's block count
CtorCallsWrongCount(cls) ==
    IF cls = "OccupancyNetworkNoCatCNN"
    THEN WrongCount(EncodingCalls \o DecodingCallsCNN)
    ELSE WrongCount(EncodingCalls \o DecodingCalls)

\* the parse_to_list calls of a constructor, in program order
CtorCalls(cls) ==
    IF cls = "OccupancyNetworkNoCatCNN"
    THEN EncodingCalls \o DecodingCallsCNN
    ELSE EncodingCalls \o DecodingCalls

\* whether an argument configures the encoding or the decoding path
ArgPath(a) == IF \E i \in 1..Len(a) : a[i] = "encoding" THEN "encoding" ELSE "decoding"

\* the per-layer arguments of a class
Args(cls) == {CtorCalls(cls)[i].arg : i \in 1..Len(CtorCalls(cls))}

\* ------------------------------------------------------------ configurations
\* what a caller passes to a constructor: the class, the two block counts and
\* the per-layer arguments
Config(cls, ne, nd, a) ==
    [cls |-> cls, number_of_encoding_blocks |-> ne, number_of_decoding_blocks |-> nd,
     args |-> a]

\* the encoding defaults shared by the three constructors, but for the channels
EncodingDefault(a, channels) ==
    CASE a = channels_in_encoding_blocks -> L(channels)
      [] a = kernel_size_encoding -> S(3)
      [] a = stride_encoding -> S(1)
      [] a = padding_encoding -> S(1)
      [] a = activation_encoding -> S("leaky relu")
      [] a = downsampling_encoding ->
            L(<<"averagepool", "averagepool", "averagepool", "averagepool", "none">>)
      [] a = downsampling_factor_encoding -> S(2)
      [] a = normalization_encoding -> S("instancenorm")
      [] a = dropout_rate_encoding -> S(0)
      [] a = bias_encoding -> S(FALSE)

\* the decoding defaults of OccupancyNetwork and OccupancyNetworkNoCat
DecodingDefault(a, channels) ==
    CASE a = channels_in_decoding_blocks -> L(channels)
      [] a = activation_decoding -> S("leaky relu")
      [] a = normalization_decoding -> S("cbatchnorm")
      [] a = dropout_rate_decoding -> L(<<0, 0, 0, 0, 0>>)
      [] a = bias_decoding -> S(TRUE)

\* the decoding defaults of OccupancyNetworkNoCatCNN
DecodingDefaultCNN(a) ==
    CASE a = channels_in_decoding_blocks -> L(<< <<9, 2>>, <<2, 1>>, <<1, 1>> >>)
      [] a = kernel_size_decoding -> S(3)
      [] a = stride_decoding -> S(1)
      [] a = padding_decoding -> S(1)
      [] a = activation_decoding -> S("leaky relu")
      [] a = downsampling_decoding -> L(<<"none", "none", "none">>)
      [] a = downsampling_factor_decoding -> S(2)
      [] a = normalization_decoding -> S("none")
      [] a = dropout_rate_decoding -> S(0)
      [] a = bias_decoding -> S(FALSE)

\* the default arguments of OccupancyNetwork.__init__
DefaultOccupancyNetwork ==
    Config("OccupancyNetwork", 5, 5,
           [a \in Args("OccupancyNetwork") |->
               IF ArgPath(a) = "encoding"
               THEN EncodingDefault(a, << <<1, 32>>, <<32, 32>>, <<32, 64>>, <<64, 64>>,
                                          <<64, 8>> >>)
               ELSE DecodingDefault(a, << <<480 + 3, 128>>, <<128, 128>>, <<128, 128>>,
                                          <<128, 128>>, <<128, 128>> >>)])

\* the default arguments of OccupancyNetworkNoCat.__init__
DefaultOccupancyNetworkNoCat ==
    Config("OccupancyNetworkNoCat", 5, 5,
           [a \in Args("OccupancyNetworkNoCat") |->
               IF ArgPath(a) = "encoding"
               THEN EncodingDefault(a, << <<1, 64>>, <<64, 64>>, <<64, 64>>, <<64, 64>>,
                                          <<64, 8>> >>)
               ELSE DecodingDefault(a, << <<3, 128>>, <<128, 128>>, <<128, 128>>,
                                          <<128, 128>>, <<128, 128>> >>)])

\* the default arguments of OccupancyNetworkNoCatCNN.__init__
DefaultOccupancyNetworkNoCatCNN ==
    Config("OccupancyNetworkNoCatCNN", 5, 3,
           [a \in Args("OccupancyNetworkNoCatCNN") |->
               IF ArgPath(a) = "encoding"
               THEN EncodingDefault(a, << <<1, 64>>, <<64, 128>>, <<128, 128>>,
                                          <<128, 64>>, <<64, 8>> >>)
               ELSE DecodingDefaultCNN(a)])

\* a shallow configuration a caller may pass: three encoding blocks that take
\* an 8x8x8 volume to a latent of width 8, two decoding blocks
Small(cfg, channels) ==
    Config(cfg.cls, 3, 2,
           [a \in Args(cfg.cls) |->
               CASE a = channels_in_encoding_blocks -> L(<< <<1, 4>>, <<4, 4>>, <<4, 8>> >>)
                 [] a = downsampling_encoding -> S("averagepool")
                 [] a = channels_in_decoding_blocks -> L(channels)
                 [] a = dropout_rate_decoding -> S(0)
                 [] a = downsampling_decoding -> S("none")
                 [] OTHER -> cfg.args[a]])

SmallOccupancyNetwork ==
    Small(DefaultOccupancyNetwork, << <<8 + 3, 16>>, <<16, 16>> >>)

SmallOccupancyNetworkNoCat ==
    Small(DefaultOccupancyNetworkNoCat, << <<3, 16>>, <<16, 16>> >>)

SmallOccupancyNetworkNoCatCNN ==
    Small(DefaultOccupancyNetworkNoCatCNN, << <<9, 2>>, <<2, 1>> >>)

\* the convolutional variant called with a last decoding block of two output
\* channels: its flattened decoder output has width 120
WideOccupancyNetworkNoCatCNN ==
    Config("OccupancyNetworkNoCatCNN", 5, 3,
           [a \in Args("OccupancyNetworkNoCatCNN") |->
               IF a = channels_in_decoding_blocks
               THEN L(<< <<9, 2>>, <<2, 1>>, <<1, 2>> >>)
               ELSE DefaultOccupancyNetworkNoCatCNN.args[a]])

\* the shallow OccupancyNetwork called with dropout rates of 0.5, in hundredths
DropoutOccupancyNetwork ==
    Config("OccupancyNetwork", 3, 2,
           [a \in Args("OccupancyNetwork") |->
               CASE a = dropout_rate_encoding -> S(50)
                 [] a = dropout_rate_decoding -> L(<<0, 50>>)
                 [] OTHER -> SmallOccupancyNetwork.args[a]])

Configs ==
    {DefaultOccupancyNetwork, SmallOccupancyNetwork, DefaultOccupancyNetworkNoCat,
     SmallOccupancyNetworkNoCat, DefaultOccupancyNetworkNoCatCNN,
     SmallOccupancyNetworkNoCatCNN}

\* ------------------------------------------------------------- construction
NoModel == [cls |-> "none", encoding |-> <<>>, decoding |-> <<>>, head |-> 0]

BlockCount(cfg, which) ==
    IF which = "encoding" THEN cfg.number_of_encoding_blocks
    ELSE cfg.number_of_decoding_blocks

\* the results of the parse_to_list calls of the constructor, in program order
ParseAll(cfg) ==
    LET calls == CtorCalls(cfg.cls)
    IN  [i \in 1..Len(calls) |->
            parse_to_list(cfg.args[calls[i].arg], BlockCount(cfg, calls[i].count),
                          calls[i].name)]

\* the constructor's locals after the conversions: argument -> list
Parsed(cfg) ==
    LET calls == CtorCalls(cfg.cls)
        res == ParseAll(cfg)
    IN  [a \in Args(cfg.cls) |->
            res[CHOOSE i \in 1..Len(calls) : calls[i].arg = a].list]

\* the first conversion that raises, 0 if none does
FirstFailure(cfg) ==
    LET res == ParseAll(cfg)
        bad == {i \in 1..Len(res) : ~res[i].ok}
    IN  IF bad = {} THEN 0 ELSE CHOOSE i \in bad : \A j \in bad : i <= j

\* ModelParts.VolumeEncoderBlock(...) for block index (1-based), path "encoding"
\* or, in the convolutional variant, "decoding"
EncoderBlockOf(p, index, channels, kernel, stride, padding, act, down, factor, norm, drop, bias) ==
    [input_channels |-> p[channels][index][1],
     output_channels |-> p[channels][index][2],
     kernel_size |-> p[kernel][index], stride |-> p[stride][index],
     padding |-> p[padding][index], activation |-> p[act][index],
     downsampling |-> p[down][index], downsampling_factor |-> p[factor][index],
     normalization |-> p[norm][index], dropout_rate |-> p[drop][index],
     bias |-> p[bias][index]]

\* self.encoding: one VolumeEncoderBlock per index in range(number_of_encoding_blocks)
EncodingOf(cfg, p) ==
    [index \in 1..cfg.number_of_encoding_blocks |->
        EncoderBlockOf(p, index, channels_in_encoding_blocks, kernel_size_encoding,
                       stride_encoding, padding_encoding, activation_encoding,
                       downsampling_encoding, downsampling_factor_encoding,
                       normalization_encoding, dropout_rate_encoding, bias_encoding)]

\* self.decoding: CoordinatesFullyConnectedBlock per index, or VolumeEncoderBlock
\* per index in the convolutional variant; latent_dim is the conditioning width
\* the block was built with
DecodingOf(cfg, p, latent_dim) ==
    [index \in 1..cfg.number_of_decoding_blocks |->
        IF cfg.cls = "OccupancyNetworkNoCatCNN"
        THEN EncoderBlockOf(p, index, channels_in_decoding_blocks, kernel_size_decoding,
                            stride_decoding, padding_decoding, activation_decoding,
                            downsampling_decoding, downsampling_factor_decoding,
                            normalization_decoding, dropout_rate_decoding, bias_decoding)
        ELSE [input_channels |-> p[channels_in_decoding_blocks][index][1],
              output_channels |-> p[channels_in_decoding_blocks][index][2],
              activation |-> p[activation_decoding][index],
              normalization |-> p[normalization_decoding][index],
              dropout_rate |-> p[dropout_rate_decoding][index],
              bias |-> p[bias_decoding][index],
              latent_dim |-> latent_dim]]

\* in_features of the final linear layer: channels_in_decoding_blocks[-1][1],
\* or the fixed nn.Linear(60, 1) of the convolutional variant
HeadOf(cfg, p) ==
    IF cfg.cls = "OccupancyNetworkNoCatCNN" THEN 60
    ELSE Last(p[channels_in_decoding_blocks])[2]

\* __init__ of the three classes of Models.py
Construct(cfg, latent_dim) ==
    LET f == FirstFailure(cfg)
        p == Parsed(cfg)
    IN  IF f # 0
        THEN [status |-> "error", error |-> ParseAll(cfg)[f].name, model |-> NoModel]
        ELSE [status |-> "ok", error |-> <<>>,
              model |-> [cls |-> cfg.cls, encoding |-> EncodingOf(cfg, p),
                         decoding |-> DecodingOf(cfg, p, latent_dim),
                         head |-> HeadOf(cfg, p)]]

\* layers.Res_Block_Down_3D(in, out, 3, 1, nn.SELU(), down)
Res_Block_Down_3D(cin, cout, kernel, stride, down) ==
    [input_channels |-> cin, output_channels |-> cout, kernel_size |-> kernel,
     stride |-> stride, padding |-> 1, activation |-> "selu",
     downsampling |-> IF down THEN "averagepool" ELSE "none",
     downsampling_factor |-> 2, normalization |-> "none", dropout_rate |-> 0,
     bias |-> TRUE]

\* layers.Res_Block_Up_Flat(in, out, activation)
Res_Block_Up_Flat(cin, cout, act) ==
    [input_channels |-> cin, output_channels |-> cout, activation |-> act]

\* Res_Auto_3d_Model_Occu_Parallel.__init__ around Res_Auto_3d_Model_Occu.__init__
Res_Auto_3d_Model_Occu ==
    [cls |-> "Res_Auto_3d_Model_Occu_Parallel",
     encoding |-> << Res_Block_Down_3D(1, 16, 3, 1, FALSE),
                     Res_Block_Down_3D(16, 16, 3, 1, TRUE),
                     Res_Block_Down_3D(16, 32, 3, 1, TRUE),
                     Res_Block_Down_3D(32, 16, 3, 1, FALSE),
                     Res_Block_Down_3D(16, 1, 3, 1, TRUE) >>,
     decoding |-> << Res_Block_Up_Flat(60 + 3, 128, "selu"),
                     Res_Block_Up_Flat(128, 256, "selu"),
                     Res_Block_Up_Flat(256, 128, "selu"),
                     Res_Block_Up_Flat(128, 1, "sigmoid") >>,
     head |-> 0]

\* ------------------------------------------------------------------- layers
\* output size of a convolution along one dim
ConvOut(x, kernel, stride, padding) == ((x + 2 * padding - kernel) \div stride) + 1

\* output size of a transposed convolution along one dim
ConvTransposeOut(x, kernel, stride, padding) == (x - 1) * stride - 2 * padding + kernel

\* features computed from volumes alone stay latent features
OutTag(t) == IF \A i \in 1..Len(t.chan) : t.chan[i].tag \in {"vol", "lat"}
             THEN "lat" ELSE "feat"

\* whether the block has a dropout layer: "[dropout if rate>0]"
HasDropoutLayer(blk) == "dropout_rate" \in DOMAIN blk /\ blk.dropout_rate > 0

\* whether a dropout layer of the block is active: the network is in training mode
DropoutActive(blk) == training /\ HasDropoutLayer(blk)

\* a dropout layer zeroing elements in every mode
DropoutAlways(blk, t) ==
    IF t.err # "none" \/ ~HasDropoutLayer(blk) THEN t
    ELSE [t EXCEPT !.rows = [i \in 1..Len(t.rows) |->
                                [t.rows[i] EXCEPT !.conds = Append(@, <<DropMark + dropout>>)]]]

\* nn.Dropout at the end of a block: during training the elements the draw
\* selects are zeroed, which marks every row; the identity otherwise
Dropout(blk, t) ==
    IF t.err # "none" \/ ~DropoutActive(blk) THEN t
    ELSE [t EXCEPT !.rows = [i \in 1..Len(t.rows) |->
                                [t.rows[i] EXCEPT !.conds = Append(@, <<DropMark + dropout>>)]]]

\* VolumeEncoderBlock.forward: convolution, normalization, activation,
\* downsampling, dropout; only the convolution and the pooling change the shape
VolumeEncoderBlock(blk, t) ==
    IF t.err # "none" THEN t
    ELSE IF Shape1(t) # blk.input_channels THEN Failed("width")
    ELSE IF \E i \in 1..Len(t.spatial) :
                t.spatial[i] + 2 * blk.padding < blk.kernel_size
         THEN Failed("spatial")
    ELSE LET conv == [i \in 1..Len(t.spatial) |->
                         ConvOut(t.spatial[i], blk.kernel_size, blk.stride, blk.padding)]
             down == [i \in 1..Len(conv) |->
                         IF blk.downsampling = "none" THEN conv[i]
                         ELSE conv[i] \div blk.downsampling_factor]
         IN  IF \E i \in 1..Len(down) : down[i] < 1 THEN Failed("spatial")
             ELSE Dropout(blk, Tensor(t.rows, <<Seg(OutTag(t), blk.output_channels)>>, down))

\* nn.Sequential of VolumeEncoderBlock
RECURSIVE Sequential(_, _)
Sequential(blocks, t) ==
    IF blocks = <<>> THEN t
    ELSE Sequential(Tail(blocks), VolumeEncoderBlock(Head(blocks), t))

\* Res_Block_Up_Flat.forward: a linear layer of in -> out features
FlatBlock(blk, t) ==
    IF t.err # "none" THEN t
    ELSE IF Shape1(t) # blk.input_channels THEN Failed("width")
    ELSE Tensor(t.rows, <<Seg("feat", blk.output_channels)>>, <<>>)

\* nn.Sequential of Res_Block_Up_Flat
RECURSIVE SequentialFlat(_, _)
SequentialFlat(blocks, t) ==
    IF blocks = <<>> THEN t
    ELSE SequentialFlat(Tail(blocks), FlatBlock(Head(blocks), t))

RECURSIVE SumSeq(_)
SumSeq(s) == IF s = <<>> THEN 0 ELSE Head(s) + SumSeq(Tail(s))

\* the latent code a block is handed: the contents of its rows, in order
LatentCode(latent_tensor) ==
    [v \in 1..Shape0(latent_tensor) |-> latent_tensor.rows[v].vol]

\* CoordinatesFullyConnectedBlock.forward(input, latent_tensor): linear
\* projection of the running state, normalization conditioned on the latent
\* code, activation, dropout; it fails when the width of the running state or
\* of the latent code is not the one the block expects
CoordinatesFullyConnectedBlock(blk, input, latent_tensor) ==
    IF input.err # "none" THEN input
    ELSE IF Shape1(input) # blk.input_channels THEN Failed("width")
    ELSE IF Shape1(latent_tensor) # blk.latent_dim THEN Failed("latent width")
    ELSE Dropout(blk,
            Tensor([i \in 1..Shape0(input) |->
                       [input.rows[i] EXCEPT !.conds = Append(@, LatentCode(latent_tensor))]],
                   <<Seg("feat", blk.output_channels)>>, <<>>))

\* what the conditioning inputs of a row add to its score
RECURSIVE SumConds(_)
SumConds(conds) == IF conds = <<>> THEN 0 ELSE SumSeq(Head(conds)) + SumConds(Tail(conds))

\* the score the learned head gives a row: a fixed function of the parameters
\* and of what the row was computed from
Score(w, row) ==
    ScoreValues[((w + 2 * row.coord + row.vol + SumConds(row.conds)) % Len(ScoreValues)) + 1]

\* the final activation, one score per row
Scores(w, t) ==
    IF t.err # "none" THEN t
    ELSE Tensor([i \in 1..Shape0(t) |-> [t.rows[i] EXCEPT !.score = Score(w, t.rows[i])]],
                <<Seg("score", 1)>>, <<>>)

\* self.output_block: nn.Linear(in_features, 1) and the output activation
output_block(in_features, w, t) ==
    IF t.err # "none" THEN t
    ELSE IF Shape1(t) # in_features \/ t.spatial # <<>> THEN Failed("width")
    ELSE Scores(w, t)

\* self.classification: nn.Flatten(), nn.Linear(in_features, 1), nn.Sigmoid()
classification(in_features, w, t) == output_block(in_features, w, flatten(t))

\* the coordinate mapping without the permute: 1 channel of 3 x 5 x 4
coordinate_mapping_unpermuted(coordinates) ==
    IF Shape1(coordinates) # 3 THEN Failed("view")
    ELSE Tensor(coordinates.rows, <<Seg("coord", 1)>>, <<3, 5, 4>>)

\* self.coordinate_mapping(coordinates.view(n, 1, 1, 3)).unsqueeze(dim=1)
\* .permute(0, 1, 3, 2, 4): ConvTranspose2d(1, 1, (5, 2)) then Conv2d(1, 3, (1, 1))
coordinate_mapping(coordinates) ==
    IF Shape1(coordinates) # 3 THEN Failed("view")
    ELSE LET viewed == <<1, 1, 3>>
             up == <<1, ConvTransposeOut(viewed[2], 5, 1, 0),
                     ConvTransposeOut(viewed[3], 2, 1, 0)>>
             conv == <<3, ConvOut(up[2], 1, 1, 0), ConvOut(up[3], 1, 1, 0)>>
             unsqueezed == <<1>> \o conv
             permuted == <<unsqueezed[1], unsqueezed[3], unsqueezed[2], unsqueezed[4]>>
         IN  Tensor(coordinates.rows, <<Seg("coord", permuted[1])>>, Tail(permuted))

\* (torch.sign(x - 0.1) + 1) / 2 on a score in hundredths, in hundredths
Sign(x) == IF x > 0 THEN 1 ELSE IF x < 0 THEN 0 - 1 ELSE 0
Label(score) == ((Sign(score - Threshold) + 1) * Scale) \div 2

\* -------------------------------------------------------------------- state
VARIABLES
    ctor,                     \* the last constructor call: configuration, outcome
    model,                    \* the constructed network, NoModel before
    weights,                  \* its learned parameters
    pc,                       \* position of the current call
    entry,                    \* "forward" or "inference"
    volume, coordinates,      \* the arguments of the current call
    output_encoding, output_encoding_flatten, mapped_coordinates,
    input_decoding, output_decoding,
    index,                    \* number of decoder blocks applied so far
    blocks,                   \* the decoder block calls so far: index, input, latent, output
    output,                   \* the value forward returns
    result,                   \* what the caller receives
    last                      \* the previous call when it is kept to be repeated, NoCall otherwise

\* Network_Generator, the files it writes, and the call of train or test in progress
VARIABLES
    generator,                \* the parameters of Network_Generator.__init__, NoGenerator before
    disk,                     \* the files under model/ and optimizer/: path -> content
    call,                     \* the arguments of the train or test call in progress
    tpc,                      \* its position
    epoch,                    \* iterations of the outer loop completed
    batch_index,              \* i, the index of the training batch in its epoch
    remaining,                \* the batches loader_train (loader_test) has not yielded yet
    remaining_val,            \* the batches loader_val has not yielded yet
    step_losses,              \* the losses _step_train returned in this epoch
    batch,                    \* the batch in hand
    yhat,                     \* the prediction for it
    loss,                     \* the loss of the batch in hand
    grad,                     \* the batches whose gradients the parameters' .grad hold, summed
    opt,                      \* the optimizer's state: the steps it has taken
    loss_best,
    losses_train, losses_val, losses_train_batch, losses_val_batch,
    loss_train_batch, loss_val, loss_train,
    passes,                   \* the forward pass in progress, or the last one: phase and mode
    written,                  \* for every key: the validation its model file belongs to,
                              \* and the least validation loss seen
    calls                     \* the constructions and calls so far

locals == <<output_encoding, output_encoding_flatten, mapped_coordinates,
            input_decoding, output_decoding, index, blocks, output>>
\* the locals of train, _val and test
loop == <<epoch, batch_index, remaining, remaining_val, step_losses, batch, yhat, loss, loss_best, losses_train, losses_val,
          losses_train_batch, losses_val_batch, loss_train_batch, loss_val, loss_train>>
\* the state of the training loop
trainer == <<generator, disk, call, tpc, loop, grad, opt, passes, written, calls>>
\* what no step of a forward pass touches
session == <<training, last, trainer>>
vars == <<ctor, model, weights, pc, entry, volume, coordinates, locals, result,
          dropout, session>>

NoCall == [entry |-> "none", volume |-> NoTensor, coordinates |-> NoTensor,
           weights |-> 0, training |-> TRUE, result |-> NoTensor]

NoCtor == [cfg |-> Config("none", 0, 0, <<>>), status |-> "none", error |-> <<>>,
           parsed |-> <<>>]

\* a float as a fraction: n / 1 for a loss, 1 / 0 for float('inf'), and 0 / 0
\* for the nan that np.mean gives an empty list
Rat(n, d) == [num |-> n, den |-> d]
Infinity == Rat(1, 0)
NaN == Rat(0, 0)
\* a < b on floats: False when either is nan
Less(a, b) == a # NaN /\ b # NaN /\ a.num * b.den < b.num * a.den
\* np.mean of a list of losses
Mean(s) == Rat(SumSeq(s), Len(s))

\* type(self._oj_model).__name__ of the networks a generator may be given
ModelNames == {"Res_Auto_3d_Model_Occu_Parallel", "OccupancyNetwork"}
\* str(device)
Devices == {"cpu", "cuda"}
\* one file for the model and the optimizer of a key
PathSharedFile(dir, name, device) == <<"model", name, device>>
\* "model/" + name + "_" + device + ".pt" and "optimizer/" + name + "_" + device + ".pt"
Path(dir, name, device) == <<dir, name, device>>
Paths == {Path(dir, name, device) : dir \in {"model", "optimizer"}, name \in ModelNames,
                                    device \in Devices}
\* the keys of the checkpoints: a class name and a device
Keys == {<<name, device>> : name \in ModelNames, device \in Devices}
NoFile == [exists |-> FALSE, state |-> 0]
File(state) == [exists |-> TRUE, state |-> state]

NoGenerator == [name |-> "none", device |-> "none", size_iter |-> 0, size_print_every |-> 0]
NoTrainCall == [fn |-> "none", load |-> FALSE, train_dataset |-> 0, val_dataset |-> 0]
NoPass == [phase |-> "none", training |-> TRUE, running |-> FALSE]
\* no validation: nothing was written yet
NoValidation == [loss |-> Infinity, weights |-> 0, opt |-> 0, least |-> Infinity]

\* the locals of a call of train, _val or test before it starts
InitLoop ==
    /\ epoch = 0
    /\ batch_index = 0
    /\ remaining = {}
    /\ remaining_val = {}
    /\ step_losses = <<>>
    /\ batch = 0
    /\ yhat = 0
    /\ loss = 0
    /\ loss_best = Infinity
    /\ losses_train = <<>>
    /\ losses_val = <<>>
    /\ losses_train_batch = <<>>
    /\ losses_val_batch = <<>>
    /\ loss_train_batch = 0
    /\ loss_val = NaN
    /\ loss_train = NaN

InitTrainer ==
    /\ generator = NoGenerator
    /\ disk = [p \in Paths |-> NoFile]
    /\ call = NoTrainCall
    /\ tpc = "idle"
    /\ InitLoop
    /\ grad = <<>>
    /\ opt = 0
    /\ passes = NoPass
    /\ written = [k \in Keys |-> NoValidation]
    /\ calls = 0

Init ==
    /\ ctor = NoCtor
    /\ model = NoModel
    /\ weights = 0
    /\ pc = "new"
    /\ entry = "none"
    /\ volume = NoTensor
    /\ coordinates = NoTensor
    /\ output_encoding = NoTensor
    /\ output_encoding_flatten = NoTensor
    /\ mapped_coordinates = NoTensor
    /\ input_decoding = NoTensor
    /\ output_decoding = NoTensor
    /\ index = 0
    /\ blocks = <<>>
    /\ output = NoTensor
    /\ result = NoTensor
    /\ training = TRUE
    /\ dropout = 0
    /\ last = NoCall
    /\ InitTrainer

ClearLocals ==
    /\ output_encoding' = NoTensor
    /\ output_encoding_flatten' = NoTensor
    /\ mapped_coordinates' = NoTensor
    /\ input_decoding' = NoTensor
    /\ output_decoding' = NoTensor
    /\ index' = 0
    /\ blocks' = <<>>
    /\ output' = NoTensor

IsCat == model.cls = "OccupancyNetwork"
IsNoCat == model.cls = "OccupancyNetworkNoCat"
IsCNN == model.cls = "OccupancyNetworkNoCatCNN"
IsResAuto == model.cls = "Res_Auto_3d_Model_Occu_Parallel"

\* an exception leaves forward: the caller receives it
Raise(t) ==
    /\ pc' = "raised"
    /\ result' = t

\* ------------------------------------------------------------- construction
\* __init__ of a Models.py class with configuration cfg
New(cfg, latent_dim, w) ==
    /\ pc = "new"
    /\ LET c == Construct(cfg, latent_dim)
       IN  /\ ctor' = [cfg |-> cfg, status |-> c.status, error |-> c.error,
                       parsed |-> IF c.status = "ok" THEN Parsed(cfg) ELSE <<>>]
           /\ model' = c.model
           /\ pc' = IF c.status = "ok" THEN "ready" ELSE "failed"
    /\ weights' = w
    /\ UNCHANGED <<entry, volume, coordinates, locals, result>>
    /\ training' = TRUE
    /\ UNCHANGED <<dropout, last, trainer>>

\* Res_Auto_3d_Model_Occu_Parallel()
NewResAuto(w) ==
    /\ pc = "new"
    /\ ctor' = [NoCtor EXCEPT !.status = "ok"]
    /\ model' = Res_Auto_3d_Model_Occu
    /\ weights' = w
    /\ pc' = "ready"
    /\ UNCHANGED <<entry, volume, coordinates, locals, result>>
    /\ training' = TRUE
    /\ UNCHANGED <<dropout, last, trainer>>

\* ------------------------------------------------------------- forward pass
\* model(volume, coordinates) or model.inference(volume, coordinates); draw is
\* what the random number generator gives the dropout layers during the call
Call_(e, shape, vols, cs, draw) ==
    /\ pc = "ready"
    /\ e = "inference" => IsResAuto
    /\ entry' = e
    /\ volume' = Tensor([i \in 1..Len(vols) |-> Row(vols[i], 0)], <<Seg("vol", 1)>>, shape)
    /\ coordinates' = Tensor([i \in 1..Len(cs) |-> Row(0, cs[i])],
                             <<Seg("coord", CoordWidth)>>, <<>>)
    /\ pc' = "encode"
    /\ result' = NoTensor
    /\ UNCHANGED <<ctor, model, weights, locals>>
    /\ dropout' = draw
    /\ UNCHANGED session

\* an encoding that counts its calls in a buffer of the network
EncodeCounting ==
    /\ pc = "encode"
    /\ LET enc == Sequential(model.encoding, volume)
       IN  IF enc.err # "none"
           THEN /\ Raise(enc)
                /\ UNCHANGED <<output_encoding, output_encoding_flatten>>
           ELSE /\ output_encoding' = enc
                /\ output_encoding_flatten' = IF IsCNN THEN NoTensor ELSE flatten(enc)
                /\ pc' = IF IsNoCat THEN "decode" ELSE IF IsCNN THEN "map" ELSE "repeat"
                /\ UNCHANGED result
    /\ weights' = CHOOSE w \in WeightValues : w # weights
    /\ UNCHANGED <<ctor, model, entry, volume, coordinates, mapped_coordinates,
                   input_decoding, output_decoding, index, blocks, output>>
    /\ UNCHANGED <<dropout, session>>

\* output_encoding = self.encoding(volume), and its flattening
Encode ==
    /\ pc = "encode"
    /\ LET enc == Sequential(model.encoding, volume)
       IN  IF enc.err # "none"
           THEN /\ Raise(enc)
                /\ UNCHANGED <<output_encoding, output_encoding_flatten>>
           ELSE /\ output_encoding' = enc
                /\ output_encoding_flatten' = IF IsCNN THEN NoTensor ELSE flatten(enc)
                /\ pc' = IF IsNoCat THEN "decode" ELSE IF IsCNN THEN "map" ELSE "repeat"
                /\ UNCHANGED result
    /\ UNCHANGED <<ctor, model, weights, entry, volume, coordinates, mapped_coordinates,
                   input_decoding, output_decoding, index, blocks, output>>
    /\ UNCHANGED <<dropout, session>>

\* OccupancyNetworkNoCatCNN.forward: "Map coordinates"
MapCoordinates ==
    /\ pc = "map"
    /\ LET m == coordinate_mapping(coordinates)
       IN  IF m.err # "none"
           THEN Raise(m) /\ UNCHANGED mapped_coordinates
           ELSE /\ mapped_coordinates' = m
                /\ pc' = "repeat"
                /\ UNCHANGED result
    /\ UNCHANGED <<ctor, model, weights, entry, volume, coordinates, output_encoding,
                   output_encoding_flatten, input_decoding, output_decoding, index,
                   blocks, output>>
    /\ UNCHANGED <<dropout, session>>

\* the latent repeated int(coordinates.shape[0] / volume.shape[0]) times
RepeatedLatent ==
    repeat_interleave(IF IsCNN THEN output_encoding ELSE output_encoding_flatten,
                      Repeats(Shape0(coordinates), Shape0(volume)))

\* input_decoding = torch.cat((torch.repeat_interleave(latent, k, dim=0), coordinates), dim=1)
RepeatCat ==
    /\ pc = "repeat"
    /\ LET c == cat(RepeatedLatent, IF IsCNN THEN mapped_coordinates ELSE coordinates)
       IN  IF c.err # "none"
           THEN Raise(c) /\ UNCHANGED input_decoding
           ELSE /\ input_decoding' = c
                /\ pc' = IF IsCat THEN "decode" ELSE "sequential"
                /\ UNCHANGED result
    /\ UNCHANGED <<ctor, model, weights, entry, volume, coordinates, output_encoding,
                   output_encoding_flatten, mapped_coordinates, output_decoding, index,
                   blocks, output>>
    /\ UNCHANGED <<dropout, session>>

\* every decoder block fed the tensor the first block was fed
DecoderInputFirst ==
    IF IsCat THEN input_decoding ELSE coordinates

\* the first block fed the latent concatenated with the coordinates in every class
DecoderInputConcat ==
    IF index = 0
    THEN cat(repeat_interleave(output_encoding_flatten,
                               Repeats(Shape0(coordinates), Shape0(volume))),
             coordinates)
    ELSE output_decoding

\* what decoder block `index` consumes: block 0 the concatenated tensor (the
\* coordinates alone in OccupancyNetworkNoCat), a later block output_decoding
DecoderInput ==
    IF index = 0
    THEN IF IsCat THEN input_decoding ELSE coordinates
    ELSE output_decoding

\* the latent repeated to one row per coordinate row before it is handed over
DecoderLatentRepeated ==
    repeat_interleave(output_encoding_flatten,
                      Repeats(Shape0(coordinates), Shape0(volume)))

\* the conditioning tensor handed to every decoder block:
\* output_encoding_flatten.clone(), output_encoding_flatten in OccupancyNetworkNoCat
DecoderLatent == output_encoding_flatten

\* one iteration of "for index, block in enumerate(self.decoding)"
DecodeBlock ==
    /\ pc = "decode"
    /\ index < Len(model.decoding)
    /\ LET out == CoordinatesFullyConnectedBlock(model.decoding[index + 1],
                                                 DecoderInput, DecoderLatent)
       IN  /\ blocks' = Append(blocks, [index |-> index, input |-> DecoderInput,
                                        latent |-> DecoderLatent, output |-> out])
           /\ IF out.err # "none"
              THEN Raise(out) /\ UNCHANGED <<output_decoding, index>>
              ELSE /\ output_decoding' = out
                   /\ index' = index + 1
                   /\ UNCHANGED <<pc, result>>
    /\ UNCHANGED <<ctor, model, weights, entry, volume, coordinates, output_encoding,
                   output_encoding_flatten, mapped_coordinates, input_decoding, output>>
    /\ UNCHANGED <<dropout, session>>

\* output = self.output_block(output_decoding), after the last decoder block
OutputBlock ==
    /\ pc = "decode"
    /\ index = Len(model.decoding)
    /\ LET out == output_block(model.head, weights, output_decoding)
       IN  IF out.err # "none"
           THEN Raise(out) /\ UNCHANGED output
           ELSE /\ output' = out
                /\ pc' = "return"
                /\ UNCHANGED result
    /\ UNCHANGED <<ctor, model, weights, entry, volume, coordinates, output_encoding,
                   output_encoding_flatten, mapped_coordinates, input_decoding,
                   output_decoding, index, blocks>>
    /\ UNCHANGED <<dropout, session>>

\* self.decoding(input_decoding) of the convolutional variant, and
\* self.decode(...) of Res_Auto_3d_Model_Occu, whose last block ends in the sigmoid
DecodeSequential ==
    /\ pc = "sequential"
    /\ LET out == IF IsCNN THEN Sequential(model.decoding, input_decoding)
                  ELSE SequentialFlat(model.decoding, input_decoding)
       IN  IF out.err # "none"
           THEN Raise(out) /\ UNCHANGED <<output_decoding, output>>
           ELSE /\ output_decoding' = out
                /\ output' = IF IsCNN THEN NoTensor ELSE Scores(weights, out)
                /\ pc' = IF IsCNN THEN "classify" ELSE "return"
                /\ UNCHANGED result
    /\ UNCHANGED <<ctor, model, weights, entry, volume, coordinates, output_encoding,
                   output_encoding_flatten, mapped_coordinates, input_decoding, index,
                   blocks>>
    /\ UNCHANGED <<dropout, session>>

\* classification_output = self.classification(output_decoding)
Classification ==
    /\ pc = "classify"
    /\ LET out == classification(model.head, weights, output_decoding)
       IN  IF out.err # "none"
           THEN Raise(out) /\ UNCHANGED output
           ELSE /\ output' = out
                /\ pc' = "return"
                /\ UNCHANGED result
    /\ UNCHANGED <<ctor, model, weights, entry, volume, coordinates, output_encoding,
                   output_encoding_flatten, mapped_coordinates, input_decoding,
                   output_decoding, index, blocks>>
    /\ UNCHANGED <<dropout, session>>

\* return output
Return ==
    /\ pc = "return"
    /\ entry = "forward"
    /\ result' = output
    /\ pc' = "returned"
    /\ UNCHANGED <<ctor, model, weights, entry, volume, coordinates, locals>>
    /\ UNCHANGED <<dropout, session>>

\* Res_Auto_3d_Model_Occu_Parallel.inference:
\* return (torch.sign(self.forward(volume, coords) - 0.1) + 1) / 2
Inference ==
    /\ pc = "return"
    /\ entry = "inference"
    /\ result' = Tensor([i \in 1..Shape0(output) |->
                            [output.rows[i] EXCEPT !.score = Label(@)]],
                        <<Seg("label", 1)>>, <<>>)
    /\ pc' = "returned"
    /\ UNCHANGED <<ctor, model, weights, entry, volume, coordinates, locals>>
    /\ UNCHANGED <<dropout, session>>

\* the call is over; the model is ready for the next one
Reset ==
    /\ pc \in {"returned", "raised"}
    /\ pc' = "ready"
    /\ entry' = "none"
    /\ volume' = NoTensor
    /\ coordinates' = NoTensor
    /\ result' = NoTensor
    /\ ClearLocals
    /\ UNCHANGED <<ctor, model, weights>>
    /\ UNCHANGED <<dropout, session>>

\* whether the network has a dropout layer
HasDropout ==
    \/ \E k \in 1..Len(model.encoding) : HasDropoutLayer(model.encoding[k])
    \/ \E k \in 1..Len(model.decoding) : HasDropoutLayer(model.decoding[k])

\* what the random number generator may give during a call
Draws == IF HasDropout THEN DropoutDraws ELSE {0}

ForwardConfigs ==
    {DefaultOccupancyNetwork, SmallOccupancyNetwork, DefaultOccupancyNetworkNoCat,
     SmallOccupancyNetworkNoCat, DefaultOccupancyNetworkNoCatCNN,
     WideOccupancyNetworkNoCatCNN}

\* a caller constructs one of the Models.py networks
Build ==
    /\ pc = "new"
    /\ \E cfg \in ForwardConfigs, d \in LatentDims, w \in WeightValues : New(cfg, d, w)

\* a caller constructs the networks.py network
BuildResAuto ==
    /\ pc = "new"
    /\ \E w \in WeightValues : NewResAuto(w)

\* a caller runs the network on a batch of volumes and coordinate rows
Invoke ==
    /\ pc = "ready"
    /\ \E e \in {"forward", "inference"}, shape \in VolumeShapes,
          b \in 1..MaxBatch, n \in 0..MaxRows :
          \E vols \in [1..b -> VolumeValues], cs \in [1..n -> CoordinateValues],
             draw \in Draws :
             Call_(e, shape, vols, cs, draw)

Next ==
    \/ Build
    \/ BuildResAuto
    \/ Invoke
    \/ Encode
    \/ MapCoordinates
    \/ RepeatCat
    \/ DecodeBlock
    \/ OutputBlock
    \/ DecodeSequential
    \/ Classification
    \/ Return
    \/ Inference
    \/ Reset

Spec == Init /\ [][Next]_vars

\* ------------------------------------------------- repeated forward passes
\* a caller constructs the shallow OccupancyNetwork with dropout
BuildDropout ==
    /\ pc = "new"
    /\ \E w \in WeightValues : New(DropoutOccupancyNetwork, 8, w)

\* self._oj_model.eval()
SetEval ==
    /\ pc = "ready"
    /\ training
    /\ training' = FALSE
    /\ UNCHANGED <<ctor, model, weights, pc, entry, volume, coordinates, locals, result,
                   dropout, last, trainer>>

\* self._oj_model.train()
SetTrain ==
    /\ pc = "ready"
    /\ ~training
    /\ training' = TRUE
    /\ UNCHANGED <<ctor, model, weights, pc, entry, volume, coordinates, locals, result,
                   dropout, last, trainer>>

\* the parameters are given other values between two calls
Update ==
    /\ pc = "ready"
    /\ \E w \in WeightValues \ {weights} : weights' = w
    /\ UNCHANGED <<ctor, model, pc, entry, volume, coordinates, locals, result,
                   dropout, session>>

\* a first call on some input
InvokeFirst ==
    /\ last = NoCall
    /\ Invoke

\* the caller keeps the input and what the call gave
Remember ==
    /\ pc \in {"returned", "raised"}
    /\ last = NoCall
    /\ last' = [entry |-> entry, volume |-> volume, coordinates |-> coordinates,
                weights |-> weights, training |-> training, result |-> result]
    /\ pc' = "ready"
    /\ entry' = "none"
    /\ volume' = NoTensor
    /\ coordinates' = NoTensor
    /\ result' = NoTensor
    /\ ClearLocals
    /\ UNCHANGED <<ctor, model, weights, dropout, training, trainer>>

\* the next call, on the input of the call before
InvokeAgain ==
    /\ pc = "ready"
    /\ last # NoCall
    /\ entry' = last.entry
    /\ volume' = last.volume
    /\ coordinates' = last.coordinates
    /\ \E draw \in Draws : dropout' = draw
    /\ pc' = "encode"
    /\ result' = NoTensor
    /\ UNCHANGED <<ctor, model, weights, locals, session>>

\* the second call is over
Forget ==
    /\ pc \in {"returned", "raised"}
    /\ last # NoCall
    /\ last' = NoCall
    /\ pc' = "ready"
    /\ entry' = "none"
    /\ volume' = NoTensor
    /\ coordinates' = NoTensor
    /\ result' = NoTensor
    /\ ClearLocals
    /\ UNCHANGED <<ctor, model, weights, dropout, training, trainer>>

NextEval ==
    \/ BuildDropout
    \/ BuildResAuto
    \/ SetEval
    \/ SetTrain
    \/ Update
    \/ InvokeFirst
    \/ InvokeAgain
    \/ Encode
    \/ RepeatCat
    \/ DecodeBlock
    \/ OutputBlock
    \/ DecodeSequential
    \/ Return
    \/ Inference
    \/ Remember
    \/ Forget

SpecEval == Init /\ [][NextEval]_vars

\* --------------------------------------------------------- Network_Generator
\* the state of the networks' own calls, which the generator reaches only
\* through the forward pass of its steps
forward == <<ctor, model, pc, entry, volume, coordinates, locals, result, dropout, last>>

\* the prediction of the network for a batch: a function of the parameters and the batch
Predict(w, b) == (w + b) % NumWeights
\* self._oj_loss(yhat, labels) for the labels of batch b
Loss(y, b) == 1 + ((y + 2 * b) % NumWeights)
\* the parameters after self._oj_optimizer.step() on the gradients in .grad
Step(w, g) == (w + SumSeq(g)) % NumWeights
\* whether the class has an inference method: the classes of Models.py have none
HasInference(name) == name = "Res_Auto_3d_Model_Occu_Parallel"

\* the key of the generator's checkpoints and their paths
Key == <<generator.name, generator.device>>
ModelPath == Path("model", generator.name, generator.device)
OptimizerPath == Path("optimizer", generator.name, generator.device)

\* device of the config module is one per process: the generators of a session share it
ProcessDevices == IF generator = NoGenerator THEN Devices ELSE {generator.device}

\* the locals of a finished call are dropped
DropLoop ==
    /\ epoch' = 0
    /\ batch_index' = 0
    /\ remaining' = {}
    /\ remaining_val' = {}
    /\ step_losses' = <<>>
    /\ batch' = 0
    /\ yhat' = 0
    /\ loss' = 0
    /\ loss_best' = Infinity
    /\ losses_train' = <<>>
    /\ losses_val' = <<>>
    /\ losses_train_batch' = <<>>
    /\ losses_val_batch' = <<>>
    /\ loss_train_batch' = 0
    /\ loss_val' = NaN
    /\ loss_train' = NaN

\* a forward pass of the network starts, in the mode the network is in
BeginPass(phase) == passes' = [phase |-> phase, training |-> training, running |-> TRUE]
\* and ends
EndPass == passes' = [passes EXCEPT !.running = FALSE]

\* Network_Generator(rate_learn, size_batch, size_iter, size_print_every, oj_loss,
\* optimizer, oj_model) around a new network, in a process using some device
NewGenerator ==
    /\ tpc = "idle"
    /\ calls < MaxCalls
    /\ calls' = calls + 1
    /\ \E name \in ModelNames, device \in ProcessDevices, size_iter \in 1..MaxIter,
          size_print_every \in 1..MaxPrintEvery, w \in 0..(NumWeights - 1) :
          /\ generator' = [name |-> name, device |-> device, size_iter |-> size_iter,
                           size_print_every |-> size_print_every]
          /\ weights' = w
    /\ training' = TRUE
    /\ grad' = <<>>
    /\ opt' = 0
    /\ passes' = NoPass
    /\ UNCHANGED <<forward, disk, call, tpc, epoch, batch_index, remaining, remaining_val,
                   step_losses, batch, yhat, loss, loss_best, losses_train, losses_val,
                   losses_train_batch, losses_val_batch, loss_train_batch, loss_val,
                   loss_train, written>>

\* train(train_dataset, val_dataset, load): the function variables and the loaders;
\* DataLoader(shuffle=True) raises ValueError for a dataset without samples
Train ==
    /\ tpc = "idle"
    /\ generator # NoGenerator
    /\ calls < MaxCalls
    /\ calls' = calls + 1
    /\ \E load \in BOOLEAN, train_dataset \in 0..MaxTrainBatches,
          val_dataset \in 0..MaxValBatches :
          /\ call' = [fn |-> "train", load |-> load, train_dataset |-> train_dataset,
                      val_dataset |-> val_dataset]
          /\ tpc' = IF train_dataset = 0 \/ val_dataset = 0 THEN "raised" ELSE "load"
    /\ loss_best' = Infinity
    /\ losses_train' = <<>>
    /\ losses_val' = <<>>
    /\ UNCHANGED <<forward, generator, disk, epoch, batch_index, remaining, remaining_val,
                   step_losses, batch, yhat, loss, losses_train_batch, losses_val_batch,
                   loss_train_batch, loss_val, loss_train, grad, opt, passes, written,
                   weights, training>>

\* if load: self._oj_model.load_state_dict(torch.load(model file))
LoadModel ==
    /\ tpc = "load"
    /\ IF ~call.load THEN tpc' = "epoch" /\ UNCHANGED weights
       ELSE IF ~disk[ModelPath].exists THEN tpc' = "raised" /\ UNCHANGED weights
       ELSE /\ weights' = disk[ModelPath].state
            /\ tpc' = "load_optimizer"
    /\ UNCHANGED <<forward, generator, disk, call, epoch, batch_index, remaining,
                   remaining_val, step_losses, batch, yhat, loss, loss_best, losses_train,
                   losses_val, losses_train_batch, losses_val_batch, loss_train_batch,
                   loss_val, loss_train, grad, opt, passes, written, training, calls>>

\* self._oj_optimizer.load_state_dict(torch.load(optimizer file))
LoadOptimizer ==
    /\ tpc = "load_optimizer"
    /\ IF ~disk[OptimizerPath].exists THEN tpc' = "raised" /\ UNCHANGED opt
       ELSE /\ opt' = disk[OptimizerPath].state
            /\ tpc' = "epoch"
    /\ UNCHANGED <<forward, generator, disk, call, epoch, batch_index, remaining,
                   remaining_val, step_losses, batch, yhat, loss, loss_best, losses_train,
                   losses_val, losses_train_batch, losses_val_batch, loss_train_batch,
                   loss_val, loss_train, grad, passes, written, weights, training, calls>>

\* for _ in range(self._size_iter): losses_train_batch = []
EpochBegin ==
    /\ tpc = "epoch"
    /\ IF epoch < generator.size_iter
       THEN /\ losses_train_batch' = <<>>
            /\ step_losses' = <<>>
            /\ remaining' = 1..call.train_dataset
            /\ tpc' = "next_batch"
       ELSE /\ tpc' = "done"
            /\ UNCHANGED <<losses_train_batch, step_losses, remaining>>
    /\ UNCHANGED <<forward, generator, disk, call, epoch, batch_index, remaining_val,
                   batch, yhat, loss, loss_best, losses_train, losses_val,
                   losses_val_batch, loss_train_batch, loss_val, loss_train, grad, opt,
                   passes, written, weights, training, calls>>

\* for i, batch in enumerate(loader_train), shuffled
NextBatch ==
    /\ tpc = "next_batch"
    /\ IF remaining = {}
       THEN tpc' = "epoch_end" /\ UNCHANGED <<remaining, batch, batch_index>>
       ELSE /\ \E b \in remaining : batch' = b /\ remaining' = remaining \ {b}
            /\ batch_index' = call.train_dataset - Cardinality(remaining)
            /\ tpc' = "step_train"
    /\ UNCHANGED <<forward, generator, disk, call, epoch, remaining_val, step_losses, yhat,
                   loss, loss_best, losses_train, losses_val, losses_train_batch,
                   losses_val_batch, loss_train_batch, loss_val, loss_train, grad, opt,
                   passes, written, weights, training, calls>>

\* a training step that leaves the mode as it is
StepTrainModeSkip ==
    /\ tpc = "step_train"
    /\ tpc' = "train_forward"
    /\ UNCHANGED <<forward, generator, disk, call, epoch, batch_index, remaining,
                   remaining_val, step_losses, batch, yhat, loss, loss_best, losses_train,
                   losses_val, losses_train_batch, losses_val_batch, loss_train_batch,
                   loss_val, loss_train, grad, opt, passes, written, weights, training,
                   calls>>

\* _step_train: self._oj_model.train()
StepTrainMode ==
    /\ tpc = "step_train"
    /\ training' = TRUE
    /\ tpc' = "train_forward"
    /\ UNCHANGED <<forward, generator, disk, call, epoch, batch_index, remaining,
                   remaining_val, step_losses, batch, yhat, loss, loss_best, losses_train,
                   losses_val, losses_train_batch, losses_val_batch, loss_train_batch,
                   loss_val, loss_train, grad, opt, passes, written, weights, calls>>

\* yhat = self._oj_model(volume.to(device), coords.to(device)) is entered
TrainForwardBegin ==
    /\ tpc = "train_forward"
    /\ BeginPass("train")
    /\ tpc' = "train_forward_running"
    /\ UNCHANGED <<forward, generator, disk, call, epoch, batch_index, remaining,
                   remaining_val, step_losses, batch, yhat, loss, loss_best, losses_train,
                   losses_val, losses_train_batch, losses_val_batch, loss_train_batch,
                   loss_val, loss_train, grad, opt, written, weights, training, calls>>

\* and returns
TrainForwardEnd ==
    /\ tpc = "train_forward_running"
    /\ yhat' = Predict(weights, batch)
    /\ EndPass
    /\ tpc' = "train_loss"
    /\ UNCHANGED <<forward, generator, disk, call, epoch, batch_index, remaining,
                   remaining_val, step_losses, batch, loss, loss_best, losses_train,
                   losses_val, losses_train_batch, losses_val_batch, loss_train_batch,
                   loss_val, loss_train, grad, opt, written, weights, training, calls>>

\* loss_train = self._oj_loss(yhat, labels.to(device))
StepLoss ==
    /\ tpc = "train_loss"
    /\ loss' = Loss(yhat, batch)
    /\ tpc' = "backward"
    /\ UNCHANGED <<forward, generator, disk, call, epoch, batch_index, remaining,
                   remaining_val, step_losses, batch, yhat, loss_best, losses_train,
                   losses_val, losses_train_batch, losses_val_batch, loss_train_batch,
                   loss_val, loss_train, grad, opt, passes, written, weights, training,
                   calls>>

\* loss_train.backward(): the gradients of the batch are added to .grad
StepBackward ==
    /\ tpc = "backward"
    /\ grad' = Append(grad, batch)
    /\ tpc' = "step_optimizer"
    /\ UNCHANGED <<forward, generator, disk, call, epoch, batch_index, remaining,
                   remaining_val, step_losses, batch, yhat, loss, loss_best, losses_train,
                   losses_val, losses_train_batch, losses_val_batch, loss_train_batch,
                   loss_val, loss_train, opt, passes, written, weights, training, calls>>

\* self._oj_optimizer.step()
StepOptimizer ==
    /\ tpc = "step_optimizer"
    /\ weights' = Step(weights, grad)
    /\ opt' = (opt + 1) % NumOptimizerStates
    /\ tpc' = "zero_grad"
    /\ UNCHANGED <<forward, generator, disk, call, epoch, batch_index, remaining,
                   remaining_val, step_losses, batch, yhat, loss, loss_best, losses_train,
                   losses_val, losses_train_batch, losses_val_batch, loss_train_batch,
                   loss_val, loss_train, grad, passes, written, training, calls>>

\* a training step that leaves the gradients as they are
StepZeroGradSkip ==
    /\ tpc = "zero_grad"
    /\ tpc' = "step_return"
    /\ UNCHANGED <<forward, generator, disk, call, epoch, batch_index, remaining,
                   remaining_val, step_losses, batch, yhat, loss, loss_best, losses_train,
                   losses_val, losses_train_batch, losses_val_batch, loss_train_batch,
                   loss_val, loss_train, grad, opt, passes, written, weights, training,
                   calls>>

\* self._oj_optimizer.zero_grad()
StepZeroGrad ==
    /\ tpc = "zero_grad"
    /\ grad' = <<>>
    /\ tpc' = "step_return"
    /\ UNCHANGED <<forward, generator, disk, call, epoch, batch_index, remaining,
                   remaining_val, step_losses, batch, yhat, loss, loss_best, losses_train,
                   losses_val, losses_train_batch, losses_val_batch, loss_train_batch,
                   loss_val, loss_train, opt, passes, written, weights, training, calls>>

\* return loss_train.item(); loss_train_batch = _step_train(batch), printed;
\* nothing is appended to losses_train_batch
StepReturn ==
    /\ tpc = "step_return"
    /\ loss_train_batch' = loss
    /\ step_losses' = Append(step_losses, loss)
    /\ tpc' = "check_val"
    /\ UNCHANGED <<forward, generator, disk, call, epoch, batch_index, remaining,
                   remaining_val, batch, yhat, loss, loss_best, losses_train, losses_val,
                   losses_train_batch, losses_val_batch, loss_val, loss_train, grad, opt,
                   passes, written, weights, training, calls>>

\* a loop that validates after every training batch
CheckValEveryBatch ==
    /\ tpc = "check_val"
    /\ tpc' = "val_begin"
    /\ UNCHANGED <<forward, generator, disk, call, epoch, batch_index, remaining,
                   remaining_val, step_losses, batch, yhat, loss, loss_best, losses_train,
                   losses_val, losses_train_batch, losses_val_batch, loss_train_batch,
                   loss_val, loss_train, grad, opt, passes, written, weights, training,
                   calls>>

\* if i % self._size_print_every == self._size_print_every-1
CheckVal ==
    /\ tpc = "check_val"
    /\ tpc' = IF batch_index % generator.size_print_every = generator.size_print_every - 1
              THEN "val_begin" ELSE "next_batch"
    /\ UNCHANGED <<forward, generator, disk, call, epoch, batch_index, remaining,
                   remaining_val, step_losses, batch, yhat, loss, loss_best, losses_train,
                   losses_val, losses_train_batch, losses_val_batch, loss_train_batch,
                   loss_val, loss_train, grad, opt, passes, written, weights, training,
                   calls>>

\* _val(loader_val, losses_val): losses_val_batch = []
ValBegin ==
    /\ tpc = "val_begin"
    /\ losses_val_batch' = <<>>
    /\ remaining_val' = 1..call.val_dataset
    /\ tpc' = "val_next"
    /\ UNCHANGED <<forward, generator, disk, call, epoch, batch_index, remaining,
                   step_losses, batch, yhat, loss, loss_best, losses_train, losses_val,
                   losses_train_batch, loss_train_batch, loss_val, loss_train, grad, opt,
                   passes, written, weights, training, calls>>

\* for batch in loader_val, shuffled
ValNext ==
    /\ tpc = "val_next"
    /\ IF remaining_val = {}
       THEN tpc' = "val_mean" /\ UNCHANGED <<remaining_val, batch>>
       ELSE /\ \E b \in remaining_val : batch' = b /\ remaining_val' = remaining_val \ {b}
            /\ tpc' = "val_mode"
    /\ UNCHANGED <<forward, generator, disk, call, epoch, batch_index, remaining,
                   step_losses, yhat, loss, loss_best, losses_train, losses_val,
                   losses_train_batch, losses_val_batch, loss_train_batch, loss_val,
                   loss_train, grad, opt, passes, written, weights, training, calls>>

\* _val: self._oj_model.eval()
ValMode ==
    /\ tpc = "val_mode"
    /\ training' = FALSE
    /\ tpc' = "val_forward"
    /\ UNCHANGED <<forward, generator, disk, call, epoch, batch_index, remaining,
                   remaining_val, step_losses, batch, yhat, loss, loss_best, losses_train,
                   losses_val, losses_train_batch, losses_val_batch, loss_train_batch,
                   loss_val, loss_train, grad, opt, passes, written, weights, calls>>

\* yhat = self._oj_model(volume.to(device), coords.to(device)) is entered
ValForwardBegin ==
    /\ tpc = "val_forward"
    /\ BeginPass("val")
    /\ tpc' = "val_forward_running"
    /\ UNCHANGED <<forward, generator, disk, call, epoch, batch_index, remaining,
                   remaining_val, step_losses, batch, yhat, loss, loss_best, losses_train,
                   losses_val, losses_train_batch, losses_val_batch, loss_train_batch,
                   loss_val, loss_train, grad, opt, written, weights, training, calls>>

\* and returns
ValForwardEnd ==
    /\ tpc = "val_forward_running"
    /\ yhat' = Predict(weights, batch)
    /\ EndPass
    /\ tpc' = "val_loss"
    /\ UNCHANGED <<forward, generator, disk, call, epoch, batch_index, remaining,
                   remaining_val, step_losses, batch, loss, loss_best, losses_train,
                   losses_val, losses_train_batch, losses_val_batch, loss_train_batch,
                   loss_val, loss_train, grad, opt, written, weights, training, calls>>

\* a validation that takes an optimizer step on its batch
ValLossWithStep ==
    /\ tpc = "val_loss"
    /\ losses_val_batch' = Append(losses_val_batch, Loss(yhat, batch))
    /\ weights' = Step(weights, <<batch>>)
    /\ tpc' = "val_next"
    /\ UNCHANGED <<forward, generator, disk, call, epoch, batch_index, remaining,
                   remaining_val, step_losses, batch, yhat, loss, loss_best, losses_train,
                   losses_val, losses_train_batch, loss_train_batch, loss_val, loss_train,
                   grad, opt, passes, written, training, calls>>

\* loss_val_batch = self._oj_loss(yhat, labels).item(), appended to losses_val_batch
ValLoss ==
    /\ tpc = "val_loss"
    /\ losses_val_batch' = Append(losses_val_batch, Loss(yhat, batch))
    /\ tpc' = "val_next"
    /\ UNCHANGED <<forward, generator, disk, call, epoch, batch_index, remaining,
                   remaining_val, step_losses, batch, yhat, loss, loss_best, losses_train,
                   losses_val, losses_train_batch, loss_train_batch, loss_val, loss_train,
                   grad, opt, passes, written, weights, training, calls>>

\* loss_val = np.mean(losses_val_batch); losses_val.append(loss_val); return loss_val
ValMean ==
    /\ tpc = "val_mean"
    /\ loss_val' = Mean(losses_val_batch)
    /\ losses_val' = Append(losses_val, Mean(losses_val_batch))
    /\ written' = [written EXCEPT ![Key].least =
                      IF Less(Mean(losses_val_batch), @) THEN Mean(losses_val_batch) ELSE @]
    /\ tpc' = "compare"
    /\ UNCHANGED <<forward, generator, disk, call, epoch, batch_index, remaining,
                   remaining_val, step_losses, batch, yhat, loss, loss_best, losses_train,
                   losses_train_batch, losses_val_batch, loss_train_batch, loss_train,
                   grad, opt, passes, weights, training, calls>>

\* if loss_val < loss_best: loss_best = loss_val
Compare ==
    /\ tpc = "compare"
    /\ IF Less(loss_val, loss_best)
       THEN loss_best' = loss_val /\ tpc' = "save_model"
       ELSE tpc' = "next_batch" /\ UNCHANGED loss_best
    /\ UNCHANGED <<forward, generator, disk, call, epoch, batch_index, remaining,
                   remaining_val, step_losses, batch, yhat, loss, losses_train, losses_val,
                   losses_train_batch, losses_val_batch, loss_train_batch, loss_val,
                   loss_train, grad, opt, passes, written, weights, training, calls>>

\* torch.save(self._oj_model.state_dict(), model file)
SaveModel ==
    /\ tpc = "save_model"
    /\ disk' = [disk EXCEPT ![ModelPath] = File(weights)]
    /\ written' = [written EXCEPT ![Key] = [@ EXCEPT !.loss = loss_val,
                                                     !.weights = weights, !.opt = opt]]
    /\ tpc' = "save_optimizer"
    /\ UNCHANGED <<forward, generator, call, epoch, batch_index, remaining, remaining_val,
                   step_losses, batch, yhat, loss, loss_best, losses_train, losses_val,
                   losses_train_batch, losses_val_batch, loss_train_batch, loss_val,
                   loss_train, grad, opt, passes, weights, training, calls>>

\* torch.save(self._oj_optimizer.state_dict(), optimizer file)
SaveOptimizer ==
    /\ tpc = "save_optimizer"
    /\ disk' = [disk EXCEPT ![OptimizerPath] = File(opt)]
    /\ tpc' = "next_batch"
    /\ UNCHANGED <<forward, generator, call, epoch, batch_index, remaining, remaining_val,
                   step_losses, batch, yhat, loss, loss_best, losses_train, losses_val,
                   losses_train_batch, losses_val_batch, loss_train_batch, loss_val,
                   loss_train, grad, opt, passes, written, weights, training, calls>>

\* loss_train = np.mean(losses_train_batch); losses_train.append(loss_train), printed as
\* "Training Loss Iteration"
EpochEnd ==
    /\ tpc = "epoch_end"
    /\ loss_train' = Mean(losses_train_batch)
    /\ losses_train' = Append(losses_train, Mean(losses_train_batch))
    /\ epoch' = epoch + 1
    /\ tpc' = "epoch"
    /\ UNCHANGED <<forward, generator, disk, call, batch_index, remaining, remaining_val,
                   step_losses, batch, yhat, loss, loss_best, losses_val,
                   losses_train_batch, losses_val_batch, loss_train_batch, loss_val, grad,
                   opt, passes, written, weights, training, calls>>

\* test(test_dataset, draw): the loader, which raises ValueError for a dataset without samples
Test ==
    /\ tpc = "idle"
    /\ generator # NoGenerator
    /\ calls < MaxCalls
    /\ calls' = calls + 1
    /\ \E test_dataset \in 0..MaxTrainBatches :
          /\ call' = [fn |-> "test", load |-> TRUE, train_dataset |-> test_dataset,
                      val_dataset |-> 0]
          /\ tpc' = IF test_dataset = 0 THEN "raised" ELSE "test_load"
    /\ UNCHANGED <<forward, generator, disk, epoch, batch_index, remaining, remaining_val,
                   step_losses, batch, yhat, loss, loss_best, losses_train, losses_val,
                   losses_train_batch, losses_val_batch, loss_train_batch, loss_val,
                   loss_train, grad, opt, passes, written, weights, training>>

\* checkpoint = torch.load(model file); self._oj_model.load_state_dict(checkpoint)
TestLoad ==
    /\ tpc = "test_load"
    /\ IF ~disk[ModelPath].exists THEN tpc' = "raised" /\ UNCHANGED <<weights, remaining>>
       ELSE /\ weights' = disk[ModelPath].state
            /\ remaining' = 1..call.train_dataset
            /\ tpc' = "test_next"
    /\ UNCHANGED <<forward, generator, disk, call, epoch, batch_index, remaining_val,
                   step_losses, batch, yhat, loss, loss_best, losses_train, losses_val,
                   losses_train_batch, losses_val_batch, loss_train_batch, loss_val,
                   loss_train, grad, opt, passes, written, training, calls>>

\* for batch in loader_test, shuffled
TestNext ==
    /\ tpc = "test_next"
    /\ IF remaining = {}
       THEN tpc' = "done" /\ UNCHANGED <<remaining, batch>>
       ELSE /\ \E b \in remaining : batch' = b /\ remaining' = remaining \ {b}
            /\ tpc' = "test_mode"
    /\ UNCHANGED <<forward, generator, disk, call, epoch, batch_index, remaining_val,
                   step_losses, yhat, loss, loss_best, losses_train, losses_val,
                   losses_train_batch, losses_val_batch, loss_train_batch, loss_val,
                   loss_train, grad, opt, passes, written, weights, training, calls>>

\* test: self._oj_model.eval()
TestMode ==
    /\ tpc = "test_mode"
    /\ training' = FALSE
    /\ tpc' = "test_forward"
    /\ UNCHANGED <<forward, generator, disk, call, epoch, batch_index, remaining,
                   remaining_val, step_losses, batch, yhat, loss, loss_best, losses_train,
                   losses_val, losses_train_batch, losses_val_batch, loss_train_batch,
                   loss_val, loss_train, grad, opt, passes, written, weights, calls>>

\* yhat = self._oj_model.inference(volume.to(device), coords.to(device)) is entered;
\* a class without an inference method raises AttributeError
TestForwardBegin ==
    /\ tpc = "test_forward"
    /\ IF HasInference(generator.name)
       THEN BeginPass("test") /\ tpc' = "test_forward_running"
       ELSE tpc' = "raised" /\ UNCHANGED passes
    /\ UNCHANGED <<forward, generator, disk, call, epoch, batch_index, remaining,
                   remaining_val, step_losses, batch, yhat, loss, loss_best, losses_train,
                   losses_val, losses_train_batch, losses_val_batch, loss_train_batch,
                   loss_val, loss_train, grad, opt, written, weights, training, calls>>

\* and returns
TestForwardEnd ==
    /\ tpc = "test_forward_running"
    /\ yhat' = Predict(weights, batch)
    /\ EndPass
    /\ tpc' = "test_loss"
    /\ UNCHANGED <<forward, generator, disk, call, epoch, batch_index, remaining,
                   remaining_val, step_losses, batch, loss, loss_best, losses_train,
                   losses_val, losses_train_batch, losses_val_batch, loss_train_batch,
                   loss_val, loss_train, grad, opt, written, weights, training, calls>>

\* loss_test_batch = self._oj_loss(yhat, labels.to(device)).item()
TestLoss ==
    /\ tpc = "test_loss"
    /\ loss' = Loss(yhat, batch)
    /\ tpc' = "test_next"
    /\ UNCHANGED <<forward, generator, disk, call, epoch, batch_index, remaining,
                   remaining_val, step_losses, batch, yhat, loss_best, losses_train,
                   losses_val, losses_train_batch, losses_val_batch, loss_train_batch,
                   loss_val, loss_train, grad, opt, passes, written, weights, training,
                   calls>>

\* train or test returns, or an exception leaves it: its locals are gone
Finish ==
    /\ tpc \in {"done", "raised"}
    /\ tpc' = "idle"
    /\ call' = NoTrainCall
    /\ passes' = NoPass
    /\ DropLoop
    /\ UNCHANGED <<forward, generator, disk, grad, opt, written, weights, training, calls>>

NextTrain ==
    \/ NewGenerator
    \/ Train
    \/ LoadModel
    \/ LoadOptimizer
    \/ EpochBegin
    \/ NextBatch
    \/ StepTrainMode
    \/ TrainForwardBegin
    \/ TrainForwardEnd
    \/ StepLoss
    \/ StepBackward
    \/ StepOptimizer
    \/ StepZeroGrad
    \/ StepReturn
    \/ CheckVal
    \/ ValBegin
    \/ ValNext
    \/ ValMode
    \/ ValForwardBegin
    \/ ValForwardEnd
    \/ ValLoss
    \/ ValMean
    \/ Compare
    \/ SaveModel
    \/ SaveOptimizer
    \/ EpochEnd
    \/ Test
    \/ TestLoad
    \/ TestNext
    \/ TestMode
    \/ TestForwardBegin
    \/ TestForwardEnd
    \/ TestLoss
    \/ Finish

SpecTrain == Init /\ [][NextTrain]_vars

\* ----------------------------------------------- construction with arguments
\* one element of the value an argument has in cfg
Unit(cfg, a) == IF cfg.args[a].kind = "list" THEN cfg.args[a].v[1] ELSE cfg.args[a].v

\* values a caller may pass for argument a: the one of cfg, one unit (a scalar,
\* or a channel pair), and lists of the unit of every length near the block count
ArgValues(cfg, a) ==
    LET n == BlockCount(cfg, ArgPath(a))
        unit == Unit(cfg, a)
        low == Max(0, n - MaxLengthError)
    IN  << cfg.args[a],
           IF a \in {channels_in_encoding_blocks, channels_in_decoding_blocks}
           THEN U(unit) ELSE S(unit) >>
        \o [m \in 1..(n + MaxLengthError - low + 1) |-> L(Copies(unit, low + m - 1))]

\* a caller constructs a Models.py network, passing one argument of its own
BuildWith ==
    /\ pc = "new"
    /\ \E cfg \in Configs, d \in LatentDims, w \in WeightValues :
          \E a \in Args(cfg.cls) :
             \E v \in 1..Len(ArgValues(cfg, a)) :
                New([cfg EXCEPT !.args[a] = ArgValues(cfg, a)[v]], d, w)

\* the network, or the failed construction, is dropped
Discard ==
    /\ pc \in {"ready", "failed"}
    /\ ctor' = NoCtor
    /\ model' = NoModel
    /\ weights' = 0
    /\ pc' = "new"
    /\ UNCHANGED <<entry, volume, coordinates, locals, result>>
    /\ training' = TRUE
    /\ UNCHANGED <<dropout, last, trainer>>

NextCtor == BuildWith \/ Discard

SpecCtor == Init /\ [][NextCtor]_vars

\* =================================================================== claims
\* sizes of the current call
BatchSize == Shape0(volume)
NumQueries == Shape0(coordinates)
\* k, the repetition factor forward computes
K == Repeats(NumQueries, BatchSize)
InCall == pc \notin {"new", "ready", "failed"}
IsMultiple == BatchSize * K = NumQueries
\* the encoder latent forward repeats
EncoderLatent == IF IsCNN THEN output_encoding ELSE output_encoding_flatten
\* the content of the volume a 0-based coordinate row i belongs to
VolumeOfRow(i) == volume.rows[(i \div K) + 1].vol

\* C1: the latent forward() repeats is block-contiguous: the repeated latent
\* has b*k rows and its row i is row (i div k) of the [b, d] encoder latent,
\* both as handed to torch.cat and as stored in input_decoding.
C1_BlockContiguousRepeat ==
    /\ (pc = "repeat") =>
          /\ Shape0(RepeatedLatent) = BatchSize * K
          /\ \A i \in 0..(BatchSize * K - 1) :
                RepeatedLatent.rows[i + 1] = EncoderLatent.rows[(i \div K) + 1]
    /\ (InCall /\ input_decoding # NoTensor) =>
          /\ Shape0(input_decoding) = BatchSize * K
          /\ \A i \in 0..(BatchSize * K - 1) :
                input_decoding.rows[i + 1].vol = EncoderLatent.rows[(i \div K) + 1].vol

\* two volumes of different content, each repeated at least twice
C1_Witness ==
    /\ InCall /\ input_decoding # NoTensor
    /\ BatchSize >= 2 /\ K >= 2
    /\ volume.rows[1].vol # volume.rows[2].vol

\* the latent code of the whole batch, one entry per volume
BatchLatent == [v \in 1..BatchSize |-> volume.rows[v].vol]
\* a returned forward pass of a Models.py class on b*k coordinate rows
ReturnedAligned == pc = "returned" /\ entry = "forward" /\ (IsCat \/ IsNoCat \/ IsCNN) /\ IsMultiple

C2_WitnessCat ==
    /\ pc = "returned" /\ entry = "forward" /\ IsCat
    /\ BatchSize >= 2 /\ K >= 2 /\ IsMultiple
    /\ volume.rows[1].vol # volume.rows[2].vol
    /\ result.rows[1].vol # result.rows[NumQueries].vol

\* a no-concat forward pass returned for one volume and several rows
C2_WitnessOneVolume ==
    /\ pc = "returned" /\ entry = "forward" /\ IsNoCat
    /\ BatchSize = 1 /\ NumQueries >= 2

C3_WitnessCNN ==
    /\ pc = "raised" /\ IsCNN /\ result.err = "rows"
    /\ BatchSize = 2 /\ NumQueries = 3

\* the no-concat class: three rows for two volumes went through the blocks
C3_WitnessNoCat ==
    /\ pc = "returned" /\ IsNoCat
    /\ BatchSize = 2 /\ NumQueries = 3
    /\ Shape0(result) = 3

\* C4: inference returns 1 for a score above 0.1 and 0 otherwise.
C4_InferenceIsBinary ==
    (pc = "returned" /\ entry = "inference") =>
        \A i \in 1..Shape0(result) :
            result.rows[i].score = IF output.rows[i].score > Threshold THEN Scale ELSE 0

\* C5: after a successful construction every per-layer argument has become a
\* list of exactly the block count of its path: a scalar or a single tuple is
\* replicated, every element equal to it, and a list is kept as it was passed,
\* in the same order.
C5_BroadcastToBlockCount ==
    (ctor.status = "ok" /\ ctor.cfg.cls \in Classes) =>
        \A a \in Args(ctor.cfg.cls) :
            LET value == ctor.cfg.args[a]
                n == BlockCount(ctor.cfg, ArgPath(a))
            IN  /\ Len(ctor.parsed[a]) = n
                /\ value.kind = "list" => ctor.parsed[a] = value.v
                /\ value.kind # "list" =>
                      \A i \in 1..n : ctor.parsed[a][i] = value.v

\* a single channel pair was replicated over three encoding blocks, next to
\* a list of two different channel pairs passed for the two decoding blocks
C5_Witness ==
    /\ ctor.status = "ok" /\ ctor.cfg.cls \in Classes
    /\ ctor.cfg.number_of_encoding_blocks = 3
    /\ ctor.cfg.number_of_decoding_blocks = 2
    /\ ctor.cfg.args[channels_in_encoding_blocks].kind = "tuple"
    /\ ctor.parsed[channels_in_encoding_blocks] = <<<<1, 4>>, <<1, 4>>, <<1, 4>>>>
    /\ ctor.parsed[channels_in_decoding_blocks][1] # ctor.parsed[channels_in_decoding_blocks][2]

\* whether argument a of the constructor call is a list whose length is not
\* the block count of its path
IsOffending(a) ==
    /\ ctor.cfg.args[a].kind = "list"
    /\ Len(ctor.cfg.args[a].v) # BlockCount(ctor.cfg, ArgPath(a))

\* C6: a list argument of the wrong length makes construction fail with an
\* error that names that argument, and no model is produced.
C6_ErrorNamesOffender ==
    (ctor.status # "none" /\ ctor.cfg.cls \in Classes) =>
        /\ (\E a \in Args(ctor.cfg.cls) : IsOffending(a)) =>
              ctor.status = "error" /\ model = NoModel
        /\ ctor.status = "error" =>
              \E a \in Args(ctor.cfg.cls) : IsOffending(a) /\ ctor.error = a

\* C7: in OccupancyNetwork.forward the decoder blocks are called once each in
\* index order; block 0 consumes the concatenation of repeated latent and
\* coordinates, block j > 0 the output of block j-1; every block is handed the
\* flattened encoder latent of this call; the head consumes the last output.
C7_DecoderChain ==
    (IsCat /\ InCall) =>
        /\ Len(blocks) <= Len(model.decoding)
        /\ index \in {Len(blocks), Len(blocks) - 1}
        /\ index < Len(blocks) => pc = "raised"
        /\ \A j \in 1..Len(blocks) :
              /\ blocks[j].index = j - 1
              /\ blocks[j].latent = output_encoding_flatten
              /\ blocks[j].latent.rows = volume.rows
              /\ j = 1 => blocks[j].input = input_decoding
              /\ j > 1 => blocks[j].input = blocks[j - 1].output
              /\ j < Len(blocks) => blocks[j].output.err = "none"
        /\ pc \in {"return", "returned"} =>
              /\ Len(blocks) = Len(model.decoding)
              /\ output_decoding = Last(blocks).output
              /\ \A i \in 1..Shape0(output) :
                    output.rows[i] = [output_decoding.rows[i] EXCEPT
                                         !.score = output.rows[i].score]

\* a repeat-concat forward pass returned after all five default blocks
C7_Witness ==
    /\ IsCat /\ pc = "returned" /\ Len(blocks) = 5
    /\ BatchSize >= 2 /\ NumQueries >= 2

HasLatentColumns(t) == \E i \in 1..Len(t.chan) : t.chan[i].tag = "lat"

\* C8: in OccupancyNetworkNoCat.forward the running decoder state never holds
\* latent columns: block 0 consumes the coordinates alone, width 3, a later
\* block the previous output, and the latent is only the side input.
C8_NoLatentInState ==
    (IsNoCat /\ InCall) =>
        /\ input_decoding = NoTensor
        /\ ~HasLatentColumns(output_decoding)
        /\ \A i \in 1..Shape0(output_decoding) : output_decoding.rows[i].vol = 0
        /\ \A j \in 1..Len(blocks) :
              /\ ~HasLatentColumns(blocks[j].input)
              /\ \A i \in 1..Shape0(blocks[j].input) : blocks[j].input.rows[i].vol = 0
              /\ j = 1 => /\ blocks[j].input = coordinates
                          /\ Shape1(blocks[j].input) = CoordWidth
              /\ j > 1 => blocks[j].input = blocks[j - 1].output
              /\ HasLatentColumns(blocks[j].latent)
              /\ blocks[j].latent = output_encoding_flatten

\* a no-concat forward pass got past its second decoder block
C8_Witness ==
    /\ IsNoCat /\ InCall /\ Len(blocks) >= 2 /\ blocks[2].output.err = "none"
    /\ NumQueries >= 2

\* C9 as claimed: the latent handed to the no-concat decoder blocks has been
\* repeated to one row per coordinate row, row i for the volume of row i.
C9_NoCatLatentRepeated ==
    (IsNoCat /\ InCall) =>
        \A j \in 1..Len(blocks) :
            /\ Shape0(blocks[j].latent) = NumQueries
            /\ \A i \in 0..(NumQueries - 1) :
                  blocks[j].latent.rows[i + 1].vol = VolumeOfRow(i)

\* C9 amended: both classes encode alike and hand every decoder block the
\* flattened encoder latent as it is, one row per volume; forward repeats the
\* latent only in OccupancyNetwork, for the columns of block 0's input.
C9_LatentHandedUnrepeated ==
    ((IsCat \/ IsNoCat) /\ InCall) =>
        /\ output_encoding_flatten # NoTensor =>
              /\ output_encoding_flatten = flatten(Sequential(model.encoding, volume))
              /\ Shape0(output_encoding_flatten) = BatchSize
        /\ \A j \in 1..Len(blocks) :
              /\ blocks[j].latent = output_encoding_flatten
              /\ Shape0(blocks[j].latent) = BatchSize
              /\ \A v \in 1..BatchSize :
                    blocks[j].latent.rows[v].vol = volume.rows[v].vol
        /\ IsNoCat => input_decoding = NoTensor
        /\ (IsCat /\ input_decoding # NoTensor) => Shape0(input_decoding) = NumQueries

\* a no-concat forward pass returned with two volumes and four coordinate rows
C9_Witness ==
    /\ IsNoCat /\ pc = "returned" /\ BatchSize = 2 /\ NumQueries = 4
    /\ Shape0(blocks[1].latent) = 2

\* final encoder output channels x spatial volume after downsampling
LatentDim == Last(model.encoding).output_channels * Prod(output_encoding.spatial)

\* C10: in the concatenating classes the tensor entering decoder block 0 has
\* width latent_dim + 3, the latent columns first and the three coordinate
\* columns after them, and forward returns only if that is block 0's
\* input-channel count: 480 + 3 by default, 60 + 3 in Res_Auto_3d_Model_Occu.
C10_ConcatWidth ==
    ((IsCat \/ IsResAuto) /\ InCall) =>
        /\ input_decoding # NoTensor =>
              /\ input_decoding.chan = <<Seg("lat", LatentDim), Seg("coord", 3)>>
              /\ Shape1(input_decoding) = LatentDim + 3
        /\ pc \in {"return", "returned"} =>
              /\ LatentDim + 3 = model.decoding[1].input_channels
              /\ ctor.cfg = DefaultOccupancyNetwork => LatentDim = 480
              /\ IsResAuto => LatentDim = 60
        /\ (Len(blocks) >= 1 /\ Shape1(blocks[1].input) # model.decoding[1].input_channels)
              => pc = "raised" /\ result.err = "width"

\* the default OccupancyNetwork returned on a volume that encodes to 8 x 5x3x4
C10_Witness ==
    /\ IsCat /\ pc = "returned" /\ ctor.cfg = DefaultOccupancyNetwork
    /\ output_encoding.spatial = <<5, 3, 4>> /\ NumQueries >= 1
    /\ Shape1(input_decoding) = 483

\* the shape the coordinate embedding has
EmbeddingShape == <<5, 3, 4>>
\* in_features of the fixed classifier
ClassifierWidth == 60

\* C13: in the convolutional variant the coordinate embedding has one row per
\* query point, 1 channel and spatial shape 5 x 3 x 4; the concatenation
\* succeeds only on an encoder output of spatial shape 5 x 3 x 4 and gives the
\* encoder's channels plus 1 (9 by default); the classifier succeeds only on
\* a flattened decoder output of width 60.
C13_ConvolutionalShapes ==
    (IsCNN /\ InCall) =>
        /\ mapped_coordinates # NoTensor =>
              /\ Shape0(mapped_coordinates) = NumQueries
              /\ Shape1(mapped_coordinates) = 1
              /\ mapped_coordinates.spatial = EmbeddingShape
        /\ input_decoding # NoTensor =>
              /\ output_encoding.spatial = EmbeddingShape
              /\ Shape1(input_decoding) = Shape1(output_encoding) + 1
              /\ input_decoding.spatial = EmbeddingShape
              /\ Shape0(input_decoding) = NumQueries
              /\ ctor.cfg \in {DefaultOccupancyNetworkNoCatCNN, WideOccupancyNetworkNoCatCNN}
                    => Shape1(input_decoding) = 9
        /\ (mapped_coordinates # NoTensor /\ output_encoding.spatial # EmbeddingShape
               /\ pc \notin {"repeat"}) => pc = "raised" /\ input_decoding = NoTensor
        /\ output # NoTensor => Shape1(flatten(output_decoding)) = ClassifierWidth
        /\ (output_decoding # NoTensor
               /\ Shape1(flatten(output_decoding)) # ClassifierWidth
               /\ pc # "classify") => pc = "raised" /\ output = NoTensor

\* a convolutional forward pass returned scores for four query points of two
\* volumes
C13_Witness ==
    /\ IsCNN /\ pc = "returned" /\ NumQueries = 4 /\ BatchSize = 2
    /\ Shape1(input_decoding) = 9 /\ Shape0(result) = 4
    /\ Shape1(flatten(output_decoding)) = ClassifierWidth

\* the classifier rejected a flattened decoder output of width 120
C13_WitnessWide ==
    /\ IsCNN /\ pc = "raised" /\ output_decoding # NoTensor
    /\ Shape1(flatten(output_decoding)) = 120

\* a second call on the input of the first is over, both ran in evaluation
\* mode and the parameters are those of the first call
RepeatedInEval ==
    /\ pc \in {"returned", "raised"}
    /\ last # NoCall
    /\ ~training /\ ~last.training
    /\ weights = last.weights
    /\ volume = last.volume /\ coordinates = last.coordinates /\ entry = last.entry

\* C11: a forward call keeps no state: from its first step to the return of
\* its result it changes neither the parameters nor the mode nor the layers of
\* the network, only its own locals; and in evaluation mode with the same
\* parameters a second forward call on the same volume and coordinates gives
\* what the first gave, whatever the random numbers drawn for it.
C11_EvalForwardIdempotent ==
    /\ [](RepeatedInEval => result = last.result)
    /\ [][InCall => /\ weights' = weights
                    /\ training' = training
                    /\ model' = model]_vars

\* the network with dropout returned the same four scores twice in evaluation mode
C11_Witness ==
    /\ RepeatedInEval /\ pc = "returned"
    /\ ctor.cfg = DropoutOccupancyNetwork
    /\ NumQueries = 4 /\ Shape0(result) = 4
    /\ result = last.result

\* in training mode the same input gave other scores the second time
C11_WitnessTraining ==
    /\ pc = "returned" /\ last # NoCall /\ training /\ last.training
    /\ weights = last.weights /\ result # last.result

\* ------------------------------------------------- claims on Network_Generator
\* the positions inside _val
ValStates == {"val_begin", "val_next", "val_mode", "val_forward", "val_forward_running",
              "val_loss", "val_mean"}

\* C14: every forward pass of a training step runs with the network in training
\* mode, and every forward pass of validation and of test runs with it in
\* evaluation mode; this holds for the training steps that follow a validation too
C14_ModeOfEveryPass ==
    /\ passes.phase = "train" => passes.training
    /\ passes.phase \in {"val", "test"} => ~passes.training

\* a training step's forward pass is running after a validation that put the
\* network in evaluation mode
C14_Witness ==
    /\ passes.phase = "train"
    /\ passes.running
    /\ Len(losses_val) > 0
    /\ call.val_dataset > 0

\* a forward pass of test is running
C14_WitnessTest == passes.phase = "test" /\ passes.running

\* C19: the accumulated gradients are zero when a training step starts, the
\* optimizer steps on the gradients of exactly the one batch of the step, and
\* validation finds and leaves them zero
C19_GradientsOfOneBatch ==
    /\ tpc = "step_train" => grad = <<>>
    /\ tpc = "step_optimizer" => grad = <<batch>>
    /\ tpc \in ValStates => grad = <<>>

\* the optimizer is about to step in the second training step of an epoch,
\* after a validation
C19_Witness ==
    /\ tpc = "step_optimizer"
    /\ batch_index = 1
    /\ Len(losses_val) > 0

\* i % self._size_print_every == self._size_print_every-1 for the batch in hand
Due == batch_index % generator.size_print_every = generator.size_print_every - 1
\* the validations an epoch of the call in progress runs
PerEpoch == call.train_dataset \div generator.size_print_every

\* C17: after training batch i a validation runs exactly when
\* i mod size_print_every = size_print_every - 1, validation starts nowhere
\* else, the checkpoint files are written only at such a batch, and an epoch
\* of at least size_print_every batches runs at least one validation (every
\* epoch runs train_dataset div size_print_every of them)
C17_ValidationSchedule ==
    [][/\ tpc = "check_val" => (tpc' = "val_begin" <=> Due)
       /\ (tpc' = "val_begin" /\ tpc # "val_begin") => tpc = "check_val"
       /\ disk' # disk => Due /\ tpc \in {"save_model", "save_optimizer"}
       /\ tpc' = "epoch_end" => /\ Len(losses_val') = (epoch + 1) * PerEpoch
                                /\ call.train_dataset >= generator.size_print_every
                                      => Len(losses_val') > epoch]_vars

\* a validation starts after the second batch of an epoch that had none after
\* its first
C17_Witness ==
    /\ tpc = "val_begin"
    /\ generator.size_print_every = 2
    /\ batch_index = 1
    /\ epoch = 1

\* an epoch of fewer than size_print_every batches ends without a validation
C17_WitnessNone ==
    /\ tpc = "epoch_end"
    /\ call.train_dataset < generator.size_print_every
    /\ losses_val = <<>>

\* C15: the parameters change only in the optimizer step of a training step
\* or by loading a checkpoint (or with a new network), never while a forward
\* pass is running; _val leaves the parameters, the optimizer state, the
\* gradients and loss_best as they are and changes the validation-loss history
\* only by appending the one mean of its batch losses
C15_ParametersChangeOnlyByStep ==
    [][/\ weights' # weights => /\ tpc \in {"idle", "load", "test_load", "step_optimizer"}
                                /\ ~passes.running
       /\ tpc \in ValStates => /\ weights' = weights
                               /\ opt' = opt
                               /\ grad' = grad
                               /\ loss_best' = loss_best
                               /\ disk' = disk
       /\ losses_val' # losses_val => \/ tpc = "val_mean" /\ losses_val' = Append(losses_val, Mean(losses_val_batch))
                                      \/ tpc \in {"idle", "done", "raised"}]_vars

\* a validation over at least one batch has returned its mean loss, after a
\* training step that changed the parameters
C15_Witness ==
    /\ tpc = "compare"
    /\ call.val_dataset > 0
    /\ losses_val = <<loss_val>>
    /\ loss_val # NaN
    /\ weights # 0

\* C18: the 'Training Loss Iteration' value appended to losses_train at the end
\* of an epoch is the mean of the losses _step_train returned for the batches of
\* that epoch
C18_EpochLossIsMeanOfBatchLosses ==
    (tpc = "epoch" /\ epoch > 0)
        => /\ Len(losses_train) = epoch
           /\ losses_train[epoch] = Mean(step_losses)
           /\ loss_train = Mean(step_losses)

\* an epoch of two training steps has ended and its value was appended
C18_Reached ==
    /\ tpc = "epoch"
    /\ epoch > 0
    /\ Len(step_losses) = 2
    /\ Len(losses_train) = epoch

\* C16: the checkpoint of a key is overwritten only by a validation loss
\* strictly lower than every earlier one of that key, so that once a save is
\* complete the stored files belong to the least validation loss observed so
\* far, also after a later or resumed call of train
C16_CheckpointIsBest ==
    \A k \in Keys : tpc \notin {"compare", "save_model"}
                        => ~Less(written[k].least, written[k].loss)

\* a second call of train, resumed from the checkpoint, has written the files
\* of the key anew
C16_Reached ==
    /\ call.fn = "train"
    /\ call.load
    /\ tpc = "next_batch"
    /\ written[Key].loss = loss_val
    /\ Len(losses_val) = 1

\* the positions of test after it restored the network from the model file
TestRestored == {"test_next", "test_mode", "test_forward", "test_forward_running", "test_loss"}

\* C12: what test() and train(load=True) restore from the files of the key
\* (class name, device) is the state train() saved under that key: the
\* parameters are those of the validation the checkpoint belongs to, so the
\* restored network predicts what the saved one predicted on every input, and
\* train(load=True) resumes with the optimizer state saved with them
C12_CheckpointRoundTrip ==
    /\ (\/ call.fn = "test" /\ tpc \in TestRestored
        \/ call.fn = "train" /\ tpc = "load_optimizer")
           => /\ written[Key].loss # Infinity
              /\ weights = written[Key].weights
              /\ \A b \in 1..MaxTrainBatches :
                     Predict(weights, b) = Predict(written[Key].weights, b)
    /\ (call.fn = "train" /\ call.load /\ tpc = "epoch" /\ epoch = 0)
           => /\ weights = written[Key].weights
              /\ opt = written[Key].opt

\* test runs a forward pass on the restored network, whose parameters are not
\* those a new network starts with
C12_Witness ==
    /\ call.fn = "test"
    /\ tpc = "test_forward_running"
    /\ written[Key].loss # Infinity
    /\ weights # 0

\* train(load=True) has restored the model and the optimizer
C12_WitnessResumed ==
    /\ call.fn = "train"
    /\ call.load
    /\ tpc = "epoch"
    /\ epoch = 0
    /\ opt # 0

====
